---- MODULE Spec2Model ----
(***************************************************************************)
(* Model of the Airzone Local API facade (aioairzone/localapi.py) together *)
(* with the System and Zone entities it reconciles (system.py, zone.py).   *)
(* The System mode accessors that localapi.py calls and system.py does not *)
(* define are taken from the System class of device.py.                    *)
(*                                                                         *)
(* JSON objects are records; an optional key k is a pair hasK / k.         *)
(* A Python dict that is iterated is a sequence of <<key, value>> pairs in *)
(* insertion order. Every call of the facade is one atomic action; a call  *)
(* that raises leaves the fields it had already written.                   *)
(***************************************************************************)
EXTENDS Integers, Sequences, FiniteSets, TLC

(***************************************************************************)
(* Bounds of the model.                                                    *)
(***************************************************************************)
MaxSystemId ==
  2

MaxZoneId ==
  1

MaxRecords ==
  2

(***************************************************************************)
(* Program constants.                                                      *)
(***************************************************************************)
UNKNOWN ==
  -1

STOP ==
  1

COOLING ==
  2

HEATING ==
  3

AUTO ==
  7

DEFAULT_SYSTEM_ID ==
  0

\* "mode: OperationMode | None = None" of a System: no member of
\* OperationMode is 0, so 0 stands for None.
NoMode ==
  0

\* "master_zone: int | None = None" and "speed: int | None = None" of a Zone.
None ==
  -1

OK ==
  "ok"

(***************************************************************************)
(* Helpers on sequences.                                                   *)
(***************************************************************************)
Range(s) ==
  {s[i] : i \in 1..Len(s)}

SeqsUpTo(S, n) ==
  UNION {[1..k -> S] : k \in 0..n}

RECURSIVE Flatten(_)
Flatten(ss) ==
  IF Len(ss) = 0 THEN <<>> ELSE Head(ss) \o Flatten(Tail(ss))

(***************************************************************************)
(* Value model (common.py).                                                *)
(***************************************************************************)
\* OperationMode(value): a value outside the enumeration is UNKNOWN.
OperationMode(v) ==
  IF v \in 1..7 THEN v ELSE UNKNOWN

DecodeModes(raw) ==
  [i \in 1..Len(raw) |-> OperationMode(raw[i])]

\* "eco_adapt: EcoAdapt | None = None": no member of EcoAdapt is the empty
\* string, which stands for None.
NoEcoAdapt ==
  ""

\* EcoAdapt(value): a value outside the enumeration is OFF.
EcoAdapt(v) ==
  IF v \in {"off", "manual", "a", "a_p", "a_pp"} THEN v ELSE "off"

\* TemperatureUnit(value): the enumeration has the members 0 and 1 and no
\* _missing_ hook, so any other value raises ValueError.
TemperatureUnitRaises(v) ==
  v \notin 0..1

\* str.casefold on the keys of an error object.
Casefold(key) ==
  CASE key = "Zone"   -> "zone"
    [] key = "System" -> "system"
    [] OTHER          -> key

ERROR_SYSTEM ==
  "system"

ERROR_ZONE ==
  "zone"

API_ERROR_LOW_BATTERY ==
  "Low battery"

\* d[k] = v on a dict held as a sequence of <<key, value>> pairs in insertion
\* order: a key the dict holds keeps its position.
DictSet(d, k, v) ==
  IF \E i \in 1..Len(d) : d[i][1] = k
  THEN [i \in 1..Len(d) |-> IF d[i][1] = k THEN <<k, v>> ELSE d[i]]
  ELSE Append(d, <<k, v>>)

\* get_system_zone_id: "{system_id}:{zone_id}", an injective pairing of ids.
get_system_zone_id(system_id, zone_id) ==
  <<system_id, zone_id>>

(***************************************************************************)
(* Zone (zone.py).                                                         *)
(***************************************************************************)
\* A validation that accepts every set temperature.
ValidateTempSetAny(temp_set, max_val) ==
  temp_set

\* Zone.validate_temp_set: the value to store, None when it is rejected.
\* Temperatures are floats in the code and naturals here.
ValidateTempSet(temp_set, max_val) ==
  IF max_val # None /\ max_val # 0
  THEN IF temp_set <= max_val THEN temp_set ELSE None
  ELSE temp_set

\* Zone.add_error, over the error objects of a record in order; an error
\* object is a pair <<key, val>>.
RECURSIVE ZoneAddErrors(_, _)
ZoneAddErrors(errors, new) ==
  IF Len(new) = 0 THEN errors
  ELSE LET key == Head(new)[1]
           val == Head(new)[2]
       IN  ZoneAddErrors(IF Casefold(key) = ERROR_ZONE /\ val \notin Range(errors)
                         THEN Append(errors, val) ELSE errors,
                         Tail(new))

\* Zone.update_data, lines 162-170: the fields it has written when
\* TemperatureUnit raises.
ZoneUpdateDataUntilUnits(z, zd) ==
  [z EXCEPT !.available = TRUE,
            !.master = zd.hasModes,
            !.on = (zd.on # 0),
            !.temp_max = zd.maxTemp]

\* class AirzoneStages(IntEnum): the member of a raw value, _missing_ gives
\* UNKNOWN.  Members are written by name.
AirzoneStages(v) ==
  CASE v = 0 -> "Off"
    [] v = 1 -> "Air"
    [] v = 2 -> "Radiant"
    [] v = 3 -> "Combined"
    [] OTHER -> "UNKNOWN"

\* AirzoneStages.exists: "self.value != self.Off".
StageExists(stage) ==
  stage # "Off"

\* AirzoneStages.to_list.
StageToList(stage) ==
  CASE stage = "Combined" -> <<"Off", "Air", "Radiant", "Combined">>
    [] stage \in {"Air", "Radiant"} -> <<"Off", stage>>
    [] OTHER -> <<>>

\* bool(value) of a number, written as the string Python prints; the string
\* "None" stands for None.
PyBool(v) ==
  IF v # 0 THEN "True" ELSE "False"

\* Zone.update_data, the stage list of one discipline: the raw stage list
\* decides when the record has one; if not, a stage that is truthy (not
\* None, not Off) and exists makes a list of itself; else the list stays.
ZoneStages(stage, hasStages, rawStages, old) ==
  IF hasStages THEN StageToList(AirzoneStages(rawStages))
  ELSE IF stage \notin {"None", "Off"} /\ StageExists(stage) THEN <<stage>>
  ELSE old

\* Zone.update_data: re-derives the zone from one zone record.
ZoneUpdateData(z, zd) ==
  LET master_zone == IF zd.hasMaster /\ zd.master_zoneID # z.id
                     THEN zd.master_zoneID ELSE z.master_zone
      master == IF zd.hasMode THEN zd.hasModes ELSE TRUE
      mode   == IF zd.hasMode THEN OperationMode(zd.mode) ELSE AUTO
      modes1 == IF zd.hasMode THEN z.modes ELSE <<AUTO>>
      modes  == IF master /\ zd.hasModes THEN DecodeModes(zd.modes) ELSE modes1
      accept(has, value, max_val, old) ==
        IF has /\ ValidateTempSet(value, max_val) # None
        THEN ValidateTempSet(value, max_val) ELSE old
      cool_temp_max == IF zd.hasCoolMax THEN zd.coolmaxtemp ELSE z.cool_temp_max
      heat_temp_max == IF zd.hasHeatMax THEN zd.heatmaxtemp ELSE z.heat_temp_max
      cold_stage == IF zd.hasColdStage THEN AirzoneStages(zd.coldStage)
                    ELSE z.cold_stage
      heat_stage == IF zd.hasHeatStage THEN AirzoneStages(zd.heatStage)
                    ELSE z.heat_stage
  IN  [z EXCEPT !.available = TRUE,
                !.air_demand = IF zd.hasAirDemand THEN PyBool(zd.air_demand)
                               ELSE @,
                !.floor_demand = IF zd.hasFloorDemand
                                 THEN PyBool(zd.floor_demand) ELSE @,
                !.cold_stage = cold_stage,
                !.cold_stages =
                   ZoneStages(cold_stage, zd.hasColdStages, zd.coldStages, @),
                !.heat_stage = heat_stage,
                !.heat_stages =
                   ZoneStages(heat_stage, zd.hasHeatStages, zd.heatStages, @),
                !.master = master,
                !.on = (zd.on # 0),
                !.temp_max = zd.maxTemp,
                !.temp_unit = zd.units,
                !.radio = zd.radio,
                !.eco_adapt = IF zd.hasEco THEN EcoAdapt(zd.eco_adapt) ELSE @,
                !.errors = IF zd.hasErrors THEN ZoneAddErrors(@, zd.errors)
                           ELSE @,
                !.master_zone = master_zone,
                !.cool_temp_max = cool_temp_max,
                !.cool_temp_set =
                   accept(zd.hasCoolSet, zd.coolsetpoint, cool_temp_max, @),
                !.heat_temp_max = heat_temp_max,
                !.heat_temp_set =
                   accept(zd.hasHeatSet, zd.heatsetpoint, heat_temp_max, @),
                !.mode = mode,
                !.modes = modes,
                !.temp_set =
                   accept(zd.hasSetpoint, zd.setpoint, zd.maxTemp, @)]

\* Zone.__init__: field defaults, then update_data.
ZoneInit(system_id, zone_id, zd) ==
  ZoneUpdateData([obj |-> 1, id |-> zone_id, system_id |-> system_id,
                  available |-> TRUE, master |-> FALSE, master_zone |-> None,
                  mode |-> AUTO, modes |-> <<>>, on |-> FALSE, speed |-> None,
                  temp_max |-> None, temp_set |-> None, temp_unit |-> None,
                  cool_temp_max |-> None, cool_temp_set |-> None,
                  heat_temp_max |-> None, heat_temp_set |-> None,
                  radio |-> FALSE, errors |-> <<>>, eco_adapt |-> NoEcoAdapt,
                  air_demand |-> "None", floor_demand |-> "None",
                  cold_stage |-> "None", cold_stages |-> <<>>,
                  heat_stage |-> "None", heat_stages |-> <<>>],
                 zd)

\* An is_stage_supported that takes one empty stage list for support.
ZoneIsStageSupportedAnyEmpty(z, stage) ==
  \/ stage \in Range(z.cold_stages)
  \/ stage \in Range(z.heat_stages)
  \/ Len(z.cold_stages) = 0
  \/ Len(z.heat_stages) = 0

\* Zone.is_stage_supported.  get_cold_stages and get_heat_stages give None
\* for an empty list, so the tests "len(...) == 0" never hold.
ZoneIsStageSupported(z, stage) ==
  LET coldNone == Len(z.cold_stages) = 0
      heatNone == Len(z.heat_stages) = 0
  IN  IF ~coldNone /\ stage \in Range(z.cold_stages) THEN TRUE
      ELSE IF ~heatNone /\ stage \in Range(z.heat_stages) THEN TRUE
      ELSE coldNone /\ heatNone

\* Zone.get_air_demand; the string "None" stands for None.
ZoneGetAirDemand(z) ==
  IF z.air_demand # "None" /\ ZoneIsStageSupported(z, "Air")
  THEN z.air_demand ELSE "None"

\* Zone.get_floor_demand.
ZoneGetFloorDemand(z) ==
  IF z.floor_demand # "None" /\ ZoneIsStageSupported(z, "Radiant")
  THEN z.floor_demand ELSE "None"

\* Zone.data(), the demand entries: a key is set when its getter gives a
\* value.
ZoneDataDemand(z) ==
  LET keys == (IF ZoneGetAirDemand(z) # "None" THEN {"air-demand"} ELSE {})
              \cup (IF ZoneGetFloorDemand(z) # "None" THEN {"floor-demand"}
                    ELSE {})
  IN  [k \in keys |-> IF k = "air-demand" THEN ZoneGetAirDemand(z)
                      ELSE ZoneGetFloorDemand(z)]

\* A get_modes that appends STOP whatever the list holds.
ZoneGetModesAppend(z) ==
  Append(IF Len(z.modes) = 0 THEN <<z.mode>> ELSE z.modes, STOP)

\* Zone.get_modes: the list it returns.
ZoneGetModes(z) ==
  LET modes == IF Len(z.modes) = 0 THEN <<z.mode>> ELSE z.modes
  IN  IF STOP \in Range(modes) THEN modes ELSE Append(modes, STOP)

\* Zone.get_modes: "modes += [STOP]" extends self.modes in place when the
\* list it works on is self.modes (a non-empty stored list).
ZoneAfterGetModes(z) ==
  IF Len(z.modes) = 0 THEN z ELSE [z EXCEPT !.modes = ZoneGetModes(z)]

\* Zone.get_errors.
ZoneGetErrors(z) ==
  z.errors

\* Zone.get_problems.
ZoneGetProblems(z) ==
  Len(z.errors) > 0

\* Zone.get_battery_low: None unless the thermostat is a radio one; the
\* string "None" stands for None.
ZoneGetBatteryLow(z) ==
  IF z.radio THEN IF API_ERROR_LOW_BATTERY \in Range(z.errors) THEN "True"
                  ELSE "False"
  ELSE "None"

\* Zone.set_param.
ZoneSetParam(z, key, value) ==
  CASE key = "coolsetpoint" -> [z EXCEPT !.cool_temp_set = value]
    [] key = "heatsetpoint" -> [z EXCEPT !.heat_temp_set = value]
    [] key = "mode"         -> [z EXCEPT !.mode = OperationMode(value)]
    [] key = "on"           -> [z EXCEPT !.on = (value # 0)]
    [] key = "setpoint"     -> [z EXCEPT !.temp_set = value]
    [] key = "speed"        -> [z EXCEPT !.speed = value]
    [] OTHER                -> z

(***************************************************************************)
(* System (system.py; mode, modes and their accessors from device.py).     *)
(***************************************************************************)
\* System.add_error over the error objects of a zone record in order:
\* only the system-scoped ones, once each in the list of the zone.
RECURSIVE SystemAddErrors(_, _)
SystemAddErrors(errors, new) ==
  IF Len(new) = 0 THEN errors
  ELSE LET key == Head(new)[1]
           val == Head(new)[2]
       IN  SystemAddErrors(IF Casefold(key) = ERROR_SYSTEM
                              /\ val \notin Range(errors)
                           THEN Append(errors, val) ELSE errors,
                           Tail(new))

\* System.add_error without an error id, over the error objects of a
\* systems-aggregate record.
RECURSIVE SystemAddErrorsAny(_, _)
SystemAddErrorsAny(errors, new) ==
  IF Len(new) = 0 THEN errors
  ELSE LET val == Head(new)[2]
       IN  SystemAddErrorsAny(IF val \notin Range(errors)
                              THEN Append(errors, val) ELSE errors,
                              Tail(new))

\* System.update_zone_data.
SystemUpdateZoneData(s, zd) ==
  [s EXCEPT !.available = TRUE,
            !.errors = IF zd.hasErrors /\ zd.zoneID > 0
                       THEN DictSet(@, zd.zoneID, SystemAddErrors(<<>>, zd.errors))
                       ELSE @]

\* System.__init__.
SystemInit(system_id, zd) ==
  SystemUpdateZoneData([obj |-> 1, id |-> system_id, available |-> TRUE,
                        mode |-> NoMode, modes |-> <<>>,
                        master_zone |-> None, errors |-> <<>>,
                        eco_adapt |-> NoEcoAdapt,
                        zones |-> {}, masters |-> {}, slaves |-> {}],
                       zd)

\* System.update_data (systems-aggregate record).
SystemUpdateData(s, data) ==
  [s EXCEPT !.available = TRUE,
            !.errors = IF data.hasErrors
                       THEN DictSet(@, 0, SystemAddErrorsAny(<<>>, data.errors))
                       ELSE @]

\* System.get_errors: the lists of the zones, one after the other.
SystemGetErrors(s) ==
  Flatten([i \in 1..Len(s.errors) |-> s.errors[i][2]])

\* System.get_modes (device.py): the stored list, else the single mode;
\* the empty sequence stands for its None.
SystemGetModes(s) ==
  IF Len(s.modes) > 0 THEN s.modes
  ELSE IF s.mode # NoMode THEN <<s.mode>> ELSE <<>>

\* An add_zone that registers nothing.
SystemAddZoneNothing(s, z) ==
  s

\* System.add_zone.
SystemAddZone(s, z) ==
  [s EXCEPT !.zones = @ \cup {z.id},
            !.masters = IF z.master THEN @ \cup {z.id} ELSE @ \ {z.id},
            !.slaves  = IF z.master THEN @ \ {z.id} ELSE @ \cup {z.id}]

\* System.set_param (system.py): only eco_adapt and q_adapt are handled, so
\* no modelled field changes for any key.
SystemSetParam(s, key, value) ==
  s

(***************************************************************************)
(* HotWater (hotwater.py).  power_mode is None, 0 or 1.                    *)
(***************************************************************************)
\* The value of the dhw field while the facade has no HotWater.
NoHotWater ==
  [on |-> FALSE, power_mode |-> None, temp_set |-> 0]

\* The data object of a hot-water body: a valid one has a non-zero
\* setpoint, an invalid one a setpoint of 0 and no "acs_powerful".
DhwData(dhw) ==
  IF dhw = "valid"
  THEN [acs_power |-> 1, acs_setpoint |-> 1, hasPowerful |-> TRUE,
        acs_powerful |-> 0]
  ELSE [acs_power |-> 0, acs_setpoint |-> 0, hasPowerful |-> FALSE,
        acs_powerful |-> 0]

\* HotWater.update_data.
HotWaterUpdateData(h, data) ==
  [h EXCEPT !.on = (data.acs_power # 0),
            !.temp_set = data.acs_setpoint,
            !.power_mode = IF data.hasPowerful
                           THEN (IF data.acs_powerful # 0 THEN 1 ELSE 0)
                           ELSE @]

\* HotWater.set_param.
HotWaterSetParam(h, key, value) ==
  CASE key = "acs_power"    -> [h EXCEPT !.on = (value # 0)]
    [] key = "acs_powerful" ->
         IF h.power_mode # None
         THEN [h EXCEPT !.power_mode = IF value # 0 THEN 1 ELSE 0] ELSE h
    [] key = "acs_setpoint" -> [h EXCEPT !.temp_set = value]
    [] OTHER                -> h

(***************************************************************************)
(* Facade state (AirzoneLocalApi.__init__).  A facade value st bundles the *)
(* fields of one AirzoneLocalApi object; exc is the exception the call in  *)
(* progress has raised, OK while it has raised none.                       *)
(***************************************************************************)
EmptyMap ==
  [k \in {} |-> 0]

NewApi(system_id) ==
  [system_id |-> system_id,
   first_update |-> TRUE,
   api_features |-> {},
   api_features_checked |-> FALSE,
   hotwater |-> FALSE,
   dhw |-> NoHotWater,
   http_quirks |-> FALSE,
   http_quirks_needed |-> TRUE,
   systems |-> EmptyMap,
   version |-> FALSE,
   webserver |-> FALSE,
   mac |-> None,
   zones |-> EmptyMap,
   zone_order |-> <<>>,
   sent |-> {},
   wire |-> {},
   exc |-> OK]

Raise(st, e) ==
  IF st.exc = OK THEN [st EXCEPT !.exc = e] ELSE st

\* http_quirks_enabled.
http_quirks_enabled(st) ==
  st.http_quirks \/ st.http_quirks_needed

\* http_request: the call in progress sends a request to an endpoint, by
\* http_quirks_request when http_quirks_enabled() and by aiohttp_request
\* when not.  sent is the set of endpoints the call has sent a request to,
\* wire the set of <<endpoint, quirks mode>> of these requests.
Send(st, endpoint) ==
  [st EXCEPT !.sent = @ \cup {endpoint},
             !.wire = @ \cup {<<endpoint, http_quirks_enabled(st)>>}]

\* What a request raises when the transport fails: a refused connection or
\* an undecodable body is caught and raised as InvalidHost; no handler
\* catches the TimeoutError of an expired timeout.
TransportFailure(failure) ==
  CASE failure = "connect" -> "InvalidHost"
    [] failure = "decode"  -> "InvalidHost"
    [] failure = "timeout" -> "TimeoutError"

\* handle_empty_response: fatal on the first update, logged afterwards.
HandleEmptyResponse(st) ==
  IF st.first_update THEN Raise(st, "APIError") ELSE st

\* handle_errors: the first item of the error list decides; an empty list
\* raises nothing.
HandleErrors(errors) ==
  IF Len(errors) = 0 THEN OK
  ELSE LET val == errors[1] IN
    CASE val = "acs not connected"                    -> "HotWaterNotAvailable"
      [] val = "iaqsensorid not available"            -> "IaqSensorNotAvailable"
      [] val = "Method not provided or not supported" -> "InvalidMethod"
      [] val = "request malformed"                    -> "RequestMalformed"
      [] val = "systemid not avaiable"                -> "SystemNotAvailable"
      [] val = "systemid out of range"                -> "SystemOutOfRange"
      [] val = "zoneid out of range"                  -> "ZoneOutOfRange"
      [] val = "zoneid not avaiable"                  -> "ZoneNotAvailable"
      [] val = "zoneid not provided"                  -> "ZoneNotProvided"
      [] OTHER                                        -> "APIError"

(***************************************************************************)
(* Snapshot merge (parse_system_zones and the two propagation passes).     *)
(***************************************************************************)
\* An update_system_from_zone in which the last record decides, master or
\* slave.
UpdateSystemFromZoneLastWins(st, system_id, k) ==
  LET z == st.zones[k]
      s == st.systems[system_id]
  IN  [st EXCEPT !.systems[system_id] =
                    [s EXCEPT !.master_zone = IF z.master THEN z.id ELSE @,
                              !.eco_adapt = z.eco_adapt,
                              !.mode = z.mode,
                              !.modes = ZoneGetModes(z)],
                 !.zones[k] = ZoneAfterGetModes(z)]

\* update_system_from_zone.
UpdateSystemFromZone(st, system_id, k) ==
  LET z == st.zones[k]
      s == st.systems[system_id]
  IN  IF z.master
      THEN [st EXCEPT !.systems[system_id] =
                         [s EXCEPT !.eco_adapt = IF z.eco_adapt # NoEcoAdapt
                                                 THEN z.eco_adapt ELSE @,
                                   !.master_zone = z.id,
                                   !.mode = z.mode,
                                   !.modes = ZoneGetModes(z)],
                      !.zones[k] = ZoneAfterGetModes(z)]
      ELSE LET s0 == IF s.eco_adapt = NoEcoAdapt
                     THEN [s EXCEPT !.eco_adapt = z.eco_adapt] ELSE s
               s1 == IF s0.mode = NoMode THEN [s0 EXCEPT !.mode = z.mode] ELSE s0
           IN  IF Len(SystemGetModes(s1)) = 0
               THEN [st EXCEPT !.systems[system_id] =
                                  [s1 EXCEPT !.modes = ZoneGetModes(z)],
                               !.zones[k] = ZoneAfterGetModes(z)]
               ELSE [st EXCEPT !.systems[system_id] = s1]

\* parse_system_zones, lines 473-476: resolve the System of a record.
ResolveSystem(systems, system_id, zd) ==
  IF system_id \in DOMAIN systems
  THEN SystemUpdateZoneData(systems[system_id], zd)
  ELSE SystemInit(system_id, zd)

\* A merge that constructs a new Zone for a key it already holds.
ResolveZoneRebuild(zones, system_id, zone_id, zd) ==
  LET k == get_system_zone_id(system_id, zone_id)
  IN  IF k \in DOMAIN zones
      THEN [ZoneInit(system_id, zone_id, zd) EXCEPT !.obj = zones[k].obj + 1]
      ELSE ZoneInit(system_id, zone_id, zd)

\* parse_system_zones, lines 482-487: resolve the Zone of a record.
ResolveZone(zones, system_id, zone_id, zd) ==
  LET k == get_system_zone_id(system_id, zone_id)
  IN  IF k \in DOMAIN zones
      THEN ZoneUpdateData(zones[k], zd)
      ELSE ZoneInit(system_id, zone_id, zd)

\* parse_system_zones: the body of its loop, for one zone record.
ParseZoneData(st, zd) ==
  LET system_id == zd.systemID
      zone_id == zd.zoneID
      k == get_system_zone_id(system_id, zone_id)
      s == ResolveSystem(st.systems, system_id, zd)
      st1 == [st EXCEPT !.systems =
                [i \in DOMAIN @ \cup {system_id} |->
                   IF i = system_id THEN s ELSE @[i]]]
      isNew == k \notin DOMAIN st1.zones
      z == ResolveZone(st1.zones, system_id, zone_id, zd)
      raised == Raise(IF isNew THEN st1
                      ELSE [st1 EXCEPT !.zones[k] =
                                         ZoneUpdateDataUntilUnits(@, zd)],
                      "ValueError")
      st2 == [st1 EXCEPT
                !.zones = [j \in DOMAIN @ \cup {k} |->
                             IF j = k THEN z ELSE @[j]],
                !.zone_order = IF isNew THEN Append(@, k) ELSE @,
                !.systems[system_id] = IF isNew THEN SystemAddZone(@, z) ELSE @]
  IN  IF system_id > 0
      THEN IF zone_id > 0
           THEN IF TemperatureUnitRaises(zd.units) THEN raised
                ELSE UpdateSystemFromZone(st2, system_id, k)
           ELSE st1
      ELSE st

\* A merge without the second pass over the zones.
UpdateZonesFromMasterZoneSkip(st, i) ==
  st

\* update_zones_from_master_zone, from position i of the zones dict on.
RECURSIVE UpdateZonesFromMasterZone(_, _)
UpdateZonesFromMasterZone(st, i) ==
  IF i > Len(st.zone_order) \/ st.exc # OK THEN st
  ELSE LET k == st.zone_order[i]
           z == st.zones[k]
           mk == get_system_zone_id(z.system_id, z.master_zone)
       IN  IF z.master THEN UpdateZonesFromMasterZone(st, i + 1)
           ELSE IF z.master_zone = None
           THEN LET modes == SystemGetModes(st.systems[z.system_id])
                IN  UpdateZonesFromMasterZone(
                      IF Len(modes) > 0
                      THEN [st EXCEPT !.zones[k].modes = modes] ELSE st,
                      i + 1)
           ELSE IF mk \notin DOMAIN st.zones
           THEN Raise(st, "InvalidZone")
           ELSE LET modes == ZoneGetModes(st.zones[mk])
                    st1 == [st EXCEPT !.zones[mk] = ZoneAfterGetModes(@)]
                IN  UpdateZonesFromMasterZone(
                      [st1 EXCEPT !.zones[k].modes = modes], i + 1)

RECURSIVE ParseRecords(_, _)
ParseRecords(st, zds) ==
  IF Len(zds) = 0 \/ st.exc # OK THEN st
  ELSE ParseRecords(ParseZoneData(st, Head(zds)), Tail(zds))

\* parse_system_zones.
ParseSystemZones(st, system_zones) ==
  IF st.exc # OK THEN st
  ELSE UpdateZonesFromMasterZone(ParseRecords(st, system_zones), 1)

RECURSIVE ParseSystems(_, _)
ParseSystems(st, hvac_systems) ==
  IF Len(hvac_systems) = 0 THEN st
  ELSE ParseSystems(ParseSystemZones(st, Head(hvac_systems)), Tail(hvac_systems))

(***************************************************************************)
(* Feature probing and feature refresh.  The answers of the device to the  *)
(* version, web-server, systems-aggregate and hot-water queries of one     *)
(* call are the record p:                                                  *)
(*   p.version  "none" | "noversion" | "old" | "new" | an exception        *)
(*   p.web      "none" | "nomac" | "mac" | an exception                    *)
(*   p.dhw      "none" | "invalid" | "valid" | an exception                *)
(*   p.sys      [kind: "none" | "nokey" | "list" | "raise", ids, exc,      *)
(*               hasErrors, errors: the error list of every record]        *)
(* "mac" and "mac2" are web-server bodies with two different valid MAC     *)
(* addresses, "nomac" one without a valid MAC address.                     *)
(* "none" is a reply without body; an exception is the one http_request    *)
(* raises for the reply.  p.bg is the number of tasks of a gather that     *)
(* still run to completion after an earlier task of the gather has raised. *)
(***************************************************************************)
Bodies ==
  {"none", "noversion", "old", "new", "nomac", "mac", "mac2", "invalid",
   "valid"}

\* The MAC address WebServer.update_data reads from a web-server body: the
\* addresses are numbered, None when the body has no "mac" string.
WebMac(web) ==
  CASE web = "mac"  -> 1
    [] web = "mac2" -> 2
    [] OTHER        -> None

\* update_webserver: a WebServer is updated if there is one and constructed
\* if not; WebServer.update_data writes mac only when the body has one.
UpdateWebserver(st, web) ==
  [st EXCEPT !.webserver = TRUE,
             !.mac = IF WebMac(web) # None THEN WebMac(web)
                     ELSE IF st.webserver THEN @ ELSE None]

\* update_systems.
RECURSIVE UpdateSystemRecords(_, _, _)
UpdateSystemRecords(st, sys, ids) ==
  IF Len(ids) = 0 \/ st.exc # OK THEN st
  ELSE IF Head(ids) \notin DOMAIN st.systems
  THEN Raise(st, "InvalidSystem")
  ELSE UpdateSystemRecords(
         [st EXCEPT !.systems[Head(ids)] = SystemUpdateData(@, sys)],
         sys, Tail(ids))

UpdateSystems(st, sys) ==
  CASE sys.kind = "none"  -> HandleEmptyResponse(st)
    [] sys.kind = "nokey" -> Raise(st, "APIError")
    [] OTHER              -> UpdateSystemRecords(st, sys, sys.ids)

\* class ApiFeature(IntEnum): the value of each member.
ApiFeature(feature) ==
  CASE feature = "HVAC"      -> 0
    [] feature = "SYSTEMS"   -> 1
    [] feature = "WEBSERVER" -> 2
    [] feature = "HOT_WATER" -> 4

\* a & b on naturals.
RECURSIVE BitAnd(_, _)
BitAnd(a, b) ==
  IF a = 0 \/ b = 0 THEN 0
  ELSE 2 * BitAnd(a \div 2, b \div 2) + (a % 2) * (b % 2)

\* The integer self.api_features: it starts as ApiFeature.HVAC and every
\* member that has been or-ed in adds its value; the field of the model is
\* the set of the members or-ed in.
RECURSIVE ApiFeaturesValue(_)
ApiFeaturesValue(features) ==
  IF features = {} THEN ApiFeature("HVAC")
  ELSE LET f == CHOOSE x \in features : TRUE
       IN  ApiFeature(f) + ApiFeaturesValue(features \ {f})

\* api_feature: "bool(self.api_features & feature)".
api_feature(st, feature) ==
  BitAnd(ApiFeaturesValue(st.api_features), ApiFeature(feature)) # 0

\* A set_api_feature that flips the flag instead of setting it.
ToggleApiFeature(st, feature) ==
  [st EXCEPT !.api_features =
     IF feature \in @ THEN @ \ {feature} ELSE @ \cup {feature}]

\* A set_api_feature that assigns the flag instead of or-ing it in.
SetApiFeatureAssign(st, feature) ==
  [st EXCEPT !.api_features = {feature}]

\* set_api_feature: "api_features |= feature".
SetApiFeature(st, feature) ==
  [st EXCEPT !.api_features = @ \cup {feature}]

\* A check_feature_version that goes back to quirks mode when the reply has
\* no version or the request is not supported.
CheckFeatureVersionReset(st0, p) ==
  LET st == Send(st0, "version")
  IN  CASE p.version = "none"          -> Raise(st, "APIError")
        [] p.version \in {"noversion", "InvalidMethod"} ->
             [st EXCEPT !.http_quirks_needed = TRUE]
        [] p.version \in {"old", "new"} ->
             [st EXCEPT !.version = TRUE,
                        !.http_quirks_needed = (p.version = "old")]
        [] OTHER                       -> Raise(st, p.version)

\* check_feature_version.
CheckFeatureVersion(st0, p) ==
  LET st == Send(st0, "version")
  IN  CASE p.version = "none"          -> Raise(st, "APIError")
        [] p.version = "noversion"     -> st
        [] p.version = "InvalidMethod" -> st
        [] p.version \in {"old", "new"} ->
             [st EXCEPT !.version = TRUE,
                        !.http_quirks_needed = (p.version = "old")]
        [] OTHER                       -> Raise(st, p.version)

\* A check_feature_webserver that keeps the WebServer it finds.
CheckFeatureWebserverKeep(st, p) ==
  LET st1 == Send(st, "webserver")
  IN  CASE p.web = "none"          -> Raise(st1, "APIError")
        [] p.web = "nomac"         -> st1
        [] p.web = "InvalidMethod" -> st1
        [] p.web \in {"mac", "mac2"} ->
             UpdateWebserver(SetApiFeature(st1, "WEBSERVER"), p.web)
        [] OTHER                   -> Raise(st1, p.web)

\* check_feature_webserver: "self.webserver = None" comes first.
CheckFeatureWebserver(st, p) ==
  LET st1 == Send([st EXCEPT !.webserver = FALSE, !.mac = None], "webserver")
  IN  CASE p.web = "none"          -> Raise(st1, "APIError")
        [] p.web = "nomac"         -> st1
        [] p.web = "InvalidMethod" -> st1
        [] p.web \in {"mac", "mac2"} ->
             UpdateWebserver(SetApiFeature(st1, "WEBSERVER"), p.web)
        [] OTHER                   -> Raise(st1, p.web)

\* check_feature_systems.
CheckFeatureSystems(st0, p, update) ==
  LET st == Send(st0, "systems")
  IN  CASE p.sys.kind = "none"  -> Raise(st, "APIError")
        [] p.sys.kind = "raise" ->
             IF p.sys.exc \in {"SystemOutOfRange", "ZoneNotProvided"}
             THEN st ELSE Raise(st, p.sys.exc)
        [] p.sys.kind = "nokey" -> st
        [] OTHER ->
             LET st1 == SetApiFeature(st, "SYSTEMS")
             IN  IF update THEN UpdateSystems(st1, p.sys) ELSE st1

\* dhw.get(key, default) on a JSON object, a function from its keys.
DictGet(d, key, default) ==
  IF key \in DOMAIN d THEN d[key] ELSE default

\* A check_dhw that asks for a non-zero "acs_power".
check_dhw_power_on(dhw) ==
  /\ DictGet(dhw, "acs_maxtemp", 0) # 0
  /\ DictGet(dhw, "acs_mintemp", 0) # 0
  /\ DictGet(dhw, "acs_power", 0) # 0
  /\ DictGet(dhw, "acs_setpoint", 0) # 0
  /\ DictGet(dhw, "acs_temp", 0) # 0
  /\ DictGet(dhw, "systemID", 0) = 0

\* check_dhw.
check_dhw(dhw) ==
  /\ DictGet(dhw, "acs_maxtemp", 0) # 0
  /\ DictGet(dhw, "acs_mintemp", 0) # 0
  /\ "acs_power" \in DOMAIN dhw
  /\ DictGet(dhw, "acs_setpoint", 0) # 0
  /\ DictGet(dhw, "acs_temp", 0) # 0
  /\ DictGet(dhw, "systemID", 0) = 0

\* The hot-water body of a reply to get_dhw, as check_feature_dhw tells the
\* bodies apart: "dhw.get(API_DATA, {})" handed to check_dhw.
DhwBody(res) ==
  CASE res.kind = "none"  -> "none"
    [] res.kind = "raise" -> res.exc
    [] OTHER ->
         IF check_dhw(IF res.hasData THEN res.data ELSE EmptyMap)
         THEN "valid" ELSE "invalid"

\* update_dhw: a HotWater is updated if there is one and constructed if not.
UpdateDhw(st, dhw) ==
  [st EXCEPT !.hotwater = TRUE,
             !.dhw = HotWaterUpdateData(IF st.hotwater THEN @ ELSE NoHotWater,
                                        DhwData(dhw))]

\* check_feature_dhw.
CheckFeatureDhw(st0, p, update) ==
  LET st == Send(st0, "dhw")
  IN  CASE p.dhw = "none"    -> Raise(st, "APIError")
        [] p.dhw = "invalid" -> st
        [] p.dhw \in {"HotWaterNotAvailable", "ZoneNotProvided"} -> st
        [] p.dhw = "valid" ->
             IF update THEN UpdateDhw(SetApiFeature(st, "HOT_WATER"), p.dhw)
             ELSE SetApiFeature(st, "HOT_WATER")
        [] OTHER             -> Raise(st, p.dhw)

\* update_feature_dhw.
UpdateFeatureDhw(st0, p) ==
  LET st == Send(st0, "dhw")
  IN  CASE p.dhw = "none"   -> HandleEmptyResponse(st)
        [] p.dhw \in Bodies -> UpdateDhw(st, p.dhw)
        [] OTHER            -> Raise(st, p.dhw)

\* update_feature_systems.
UpdateFeatureSystems(st0, p) ==
  LET st == Send(st0, "systems")
  IN  IF p.sys.kind = "raise" THEN Raise(st, p.sys.exc)
      ELSE UpdateSystems(st, p.sys)

\* update_feature_webserver.
UpdateFeatureWebserver(st0, p) ==
  LET st == Send(st0, "webserver")
  IN  CASE p.web = "none"   -> HandleEmptyResponse(st)
        [] p.web \in Bodies -> UpdateWebserver(st, p.web)
        [] OTHER            -> Raise(st, p.web)

RunTask(st, task, p) ==
  CASE task = "check_feature_webserver"   -> CheckFeatureWebserver(st, p)
    [] task = "check_feature_systems"     -> CheckFeatureSystems(st, p, FALSE)
    [] task = "check_feature_systems_upd" -> CheckFeatureSystems(st, p, TRUE)
    [] task = "check_feature_dhw"         -> CheckFeatureDhw(st, p, FALSE)
    [] task = "check_feature_dhw_upd"     -> CheckFeatureDhw(st, p, TRUE)
    [] task = "update_feature_dhw"        -> UpdateFeatureDhw(st, p)
    [] task = "update_feature_systems"    -> UpdateFeatureSystems(st, p)
    [] task = "update_feature_webserver"  -> UpdateFeatureWebserver(st, p)

\* asyncio.gather over tasks created in this order: the requests are sent
\* one at a time in creation order (a semaphore of one), the first
\* exception is the one gather raises, and the tasks behind it are not
\* cancelled: bg of them still complete, what they raise is never retrieved.
RECURSIVE Gather(_, _, _, _)
Gather(st, tasks, p, bg) ==
  IF Len(tasks) = 0 THEN st
  ELSE IF st.exc = OK
  THEN Gather(RunTask(st, Head(tasks), p), Tail(tasks), p, bg)
  ELSE IF bg > 0
  THEN Gather([RunTask([st EXCEPT !.exc = OK], Head(tasks), p)
                 EXCEPT !.exc = st.exc],
              Tail(tasks), p, bg - 1)
  ELSE st

\* check_features.
CheckFeatures(st, p, update) ==
  LET st1 == CheckFeatureVersion(st, p)
      tasks == IF update
               THEN <<"check_feature_webserver", "check_feature_systems_upd",
                      "check_feature_dhw_upd">>
               ELSE <<"check_feature_webserver", "check_feature_systems",
                      "check_feature_dhw">>
      st2 == Gather(st1, tasks, p, p.bg)
  IN  IF st1.exc # OK THEN st1
      ELSE IF st2.exc # OK THEN st2
      ELSE [st2 EXCEPT !.api_features_checked = TRUE]

\* A refresh that queries the three endpoints whatever the flags are.
UpdateFeaturesAll(st, p) ==
  IF st.exc # OK THEN st
  ELSE IF ~st.api_features_checked THEN CheckFeatures(st, p, TRUE)
  ELSE Gather(st, <<"update_feature_dhw", "update_feature_systems",
                    "update_feature_webserver">>, p, p.bg)

\* update_features.
UpdateFeatures(st, p) ==
  LET sel(f, t) == IF f \in st.api_features THEN <<t>> ELSE <<>>
      tasks == sel("HOT_WATER", "update_feature_dhw")
               \o sel("SYSTEMS", "update_feature_systems")
               \o sel("WEBSERVER", "update_feature_webserver")
  IN  IF st.exc # OK THEN st
      ELSE IF ~st.api_features_checked THEN CheckFeatures(st, p, TRUE)
      ELSE Gather(st, tasks, p, p.bg)

(***************************************************************************)
(* validate and update.  The HVAC reply is                                 *)
(*   [kind: "none" | "body" | "raise", exc,                                *)
(*    hasSystems, systems: list of zone arrays, hasData, data: zone array] *)
(***************************************************************************)
SetAllUnavailable(st) ==
  [st EXCEPT !.systems = [i \in DOMAIN @ |-> [@[i] EXCEPT !.available = FALSE]],
             !.zones = [k \in DOMAIN @ |-> [@[k] EXCEPT !.available = FALSE]]]

\* update, lines 448-460: what it does with a reply that has a body.
MergeHvac(st, hvac) ==
  LET st1 == SetAllUnavailable(st)
  IN  IF st.system_id = DEFAULT_SYSTEM_ID
      THEN IF ~hvac.hasSystems THEN Raise(st1, "APIError")
           ELSE ParseSystems(st1, hvac.systems)
      ELSE ParseSystemZones(st1, IF hvac.hasData THEN hvac.data ELSE <<>>)

\* An update that clears _first_update once the HVAC reply is merged,
\* whatever the feature refresh raises.
UpdateClearsEarly(st0, hvac, p) ==
  LET st == Send(st0, "hvac")
  IN  CASE hvac.kind = "raise" -> Raise(st, hvac.exc)
        [] hvac.kind = "none"  -> HandleEmptyResponse(st)
        [] OTHER ->
             LET st1 == MergeHvac(st, hvac)
             IN  UpdateFeatures(IF st1.exc = OK
                                THEN [st1 EXCEPT !.first_update = FALSE]
                                ELSE st1, p)

\* update.
Update(st0, hvac, p) ==
  LET st == Send(st0, "hvac")
  IN  CASE hvac.kind = "raise" -> Raise(st, hvac.exc)
        [] hvac.kind = "none"  -> HandleEmptyResponse(st)
        [] OTHER ->
             LET st1 == UpdateFeatures(MergeHvac(st, hvac), p)
             IN  IF st1.exc = OK THEN [st1 EXCEPT !.first_update = FALSE]
                 ELSE st1

\* A validate that leaves _first_update as it finds it.
ValidateNoReset(st, hvac, p) ==
  LET st0 == CheckFeatures(st, p, FALSE)
      st1 == Send(st0, "hvac")
  IN  IF st0.exc # OK THEN st0
      ELSE CASE hvac.kind = "raise" -> Raise(st1, hvac.exc)
             [] hvac.kind = "none"  -> Raise(st1, "APIError")
             [] OTHER ->
                  IF st.system_id = DEFAULT_SYSTEM_ID
                  THEN IF hvac.hasSystems THEN st1 ELSE Raise(st1, "InvalidHost")
                  ELSE IF hvac.hasData THEN st1 ELSE Raise(st1, "InvalidHost")

\* validate.
Validate(st, hvac, p) ==
  LET st0 == CheckFeatures([st EXCEPT !.first_update = TRUE], p, FALSE)
      st1 == Send(st0, "hvac")
  IN  IF st0.exc # OK THEN st0
      ELSE CASE hvac.kind = "raise" -> Raise(st1, hvac.exc)
             [] hvac.kind = "none"  -> Raise(st1, "APIError")
             [] OTHER ->
                  IF st.system_id = DEFAULT_SYSTEM_ID
                  THEN IF hvac.hasSystems THEN st1 ELSE Raise(st1, "InvalidHost")
                  ELSE IF hvac.hasData THEN st1 ELSE Raise(st1, "InvalidHost")

\* data(): the facade after the call.  It calls Zone.data() for every zone,
\* which calls get_modes(); System.data(), HotWater.data() and
\* WebServer.data() read fields only.
FacadeData(st) ==
  [st EXCEPT !.zones = [k \in DOMAIN @ |-> ZoneAfterGetModes(@[k])]]

\* validate, lines 435-438: what it returns when it returns normally.
ValidateReturn(st) ==
  IF st.webserver THEN st.mac ELSE None

(***************************************************************************)
(* Commands.  The parameters of a command are a list of <<key, value>>     *)
(* pairs with distinct keys (a dict in insertion order).  The reply to the *)
(* PUT is                                                                  *)
(*   [kind: "none" | "body" | "raise", exc, status,                        *)
(*    hasData, data: the echoed object, a function from its keys,          *)
(*    hasErrors, errors: the messages of the error list]                   *)
(***************************************************************************)
API_NO_FEEDBACK_PARAMS ==
  {"mode"}

API_SYSTEM_PARAMS ==
  {"mode", "speed"}

API_ZONE_PARAMS ==
  {"coolsetpoint", "coldangle", "coldStage", "heatangle", "heatsetpoint",
   "heatStage", "name", "on", "setpoint", "sleep"}

Keys(params) ==
  {params[i][1] : i \in 1..Len(params)}

\* params.get(key) for a key of params.
Get(params, key) ==
  params[CHOOSE i \in 1..Len(params) : params[i][1] = key][2]

\* aiohttp_request / http_quirks_request: what the request raises.
HttpRequest(res) ==
  IF res.kind = "raise" THEN res.exc
  ELSE IF res.status # 200
  THEN IF res.kind = "body" /\ res.hasErrors /\ HandleErrors(res.errors) # OK
       THEN HandleErrors(res.errors) ELSE "APIError"
  ELSE OK

\* An echo that is validated as the device sent it.
ForceNothing(params, data) ==
  data

\* set_hvac_parameters, lines 674-678: a no-feedback parameter that was
\* requested and is missing in the echo is written into the echo.
ForceNoFeedback(params, data) ==
  LET forced == {k \in API_NO_FEEDBACK_PARAMS :
                   k \in Keys(params) /\ k \notin DOMAIN data}
  IN  [k \in DOMAIN data \cup forced |->
         IF k \in forced THEN Get(params, k) ELSE data[k]]

\* A validation for which the id 0 is an id like any other.
RECURSIVE CheckParamsNoWildcard(_, _)
CheckParamsNoWildcard(params, data) ==
  IF Len(params) = 0 THEN [exc |-> OK, key |-> ""]
  ELSE LET key == Head(params)[1]
           value == Head(params)[2]
       IN  IF /\ key \in {"systemID", "zoneID"}
              /\ (key \notin DOMAIN data \/ data[key] # value)
           THEN [exc |-> IF key = "systemID" THEN "InvalidSystem"
                                             ELSE "InvalidZone",
                 key |-> key]
           ELSE IF key \notin DOMAIN data
           THEN [exc |-> "InvalidParam", key |-> key]
           ELSE CheckParamsNoWildcard(Tail(params), data)

\* set_hvac_parameters, lines 680-696: the requested keys in order; the
\* result is the exception raised and the key that raised it.
RECURSIVE CheckParams(_, _)
CheckParams(params, data) ==
  IF Len(params) = 0 THEN [exc |-> OK, key |-> ""]
  ELSE LET key == Head(params)[1]
           value == Head(params)[2]
       IN  IF /\ key \in {"systemID", "zoneID"}
              /\ value # 0
              /\ (key \notin DOMAIN data \/ data[key] # value)
           THEN [exc |-> IF key = "systemID" THEN "InvalidSystem"
                                             ELSE "InvalidZone",
                 key |-> key]
           ELSE IF key \notin DOMAIN data
           THEN [exc |-> "InvalidParam", key |-> key]
           ELSE CheckParams(Tail(params), data)

\* set_hvac_parameters, lines 698-699: get_system and get_zone on the echo.
Lookup(st, data) ==
  IF "systemID" \notin DOMAIN data THEN "KeyError"
  ELSE IF data["systemID"] \notin DOMAIN st.systems THEN "InvalidSystem"
  ELSE IF "zoneID" \notin DOMAIN data THEN "KeyError"
  ELSE IF get_system_zone_id(data["systemID"], data["zoneID"])
            \notin DOMAIN st.zones THEN "InvalidZone"
  ELSE OK

\* set_hvac_parameters, lines 700-704: every echoed key goes to the System
\* if it is a system parameter, else to the Zone if it is a zone parameter.
RECURSIVE ApplyEcho(_, _, _)
ApplyEcho(st, data, todo) ==
  IF todo = {} THEN st
  ELSE LET key == CHOOSE k \in todo : TRUE
           sid == data["systemID"]
           zk == get_system_zone_id(sid, data["zoneID"])
           st1 == IF key \in API_SYSTEM_PARAMS
                  THEN [st EXCEPT !.systems[sid] = SystemSetParam(@, key, data[key])]
                  ELSE IF key \in API_ZONE_PARAMS
                  THEN [st EXCEPT !.zones[zk] = ZoneSetParam(@, key, data[key])]
                  ELSE st
       IN  ApplyEcho(st1, data, todo \ {key})

\* set_hvac_parameters: the stage it reaches, the exception it raises there,
\* the key that raised it and the data object of the response it returns.
SetHvacOutcome(st, params, res) ==
  LET data == ForceNoFeedback(params, res.data)
      chk == CheckParams(params, data)
      out(stage, exc, key, ret) ==
        [stage |-> stage, exc |-> exc, key |-> key, data |-> ret]
  IN  IF HttpRequest(res) # OK THEN out("request", HttpRequest(res), "", EmptyMap)
      ELSE IF res.kind = "none" THEN out("empty", "APIError", "", EmptyMap)
      ELSE IF ~res.hasData
      THEN IF res.hasErrors /\ HandleErrors(res.errors) # OK
           THEN out("errors", HandleErrors(res.errors), "", EmptyMap)
           ELSE out("nodata", "APIError", "", EmptyMap)
      ELSE IF chk.exc # OK THEN out("check", chk.exc, chk.key, data)
      ELSE IF Lookup(st, data) # OK THEN out("lookup", Lookup(st, data), "", data)
      ELSE out("applied", OK, "", data)

\* A set_hvac_parameters that applies the echo of a known zone before it
\* validates the requested keys.
SetHvacParametersApplyFirst(st, params, res) ==
  LET o == SetHvacOutcome(st, params, res)
  IN  IF o.exc = OK THEN ApplyEcho(st, o.data, DOMAIN o.data)
      ELSE IF o.stage = "check" /\ Lookup(st, o.data) = OK
      THEN Raise(ApplyEcho(st, o.data, DOMAIN o.data), o.exc)
      ELSE Raise(st, o.exc)

\* set_hvac_parameters.
SetHvacParameters(st, params, res) ==
  LET o == SetHvacOutcome(st, params, res)
  IN  IF o.exc # OK THEN Raise(st, o.exc)
      ELSE ApplyEcho(st, o.data, DOMAIN o.data)

API_DHW_PARAMS ==
  {"acs_power", "acs_powerful", "acs_setpoint"}

\* set_dhw_parameters, lines 651-656: every echoed hot-water parameter goes
\* to the HotWater, if there is one.
RECURSIVE ApplyDhwEcho(_, _, _)
ApplyDhwEcho(st, data, todo) ==
  IF todo = {} THEN st
  ELSE LET key == CHOOSE k \in todo : TRUE
       IN  ApplyDhwEcho(
             IF key \in API_DHW_PARAMS
             THEN [st EXCEPT !.dhw = HotWaterSetParam(@, key, data[key])]
             ELSE st,
             data, todo \ {key})

\* set_dhw_parameters.
SetDhwParameters(st, params, res) ==
  IF HttpRequest(res) # OK THEN Raise(st, HttpRequest(res))
  ELSE IF res.kind = "none" THEN Raise(st, "APIError")
  ELSE IF ~res.hasData
  THEN IF res.hasErrors /\ HandleErrors(res.errors) # OK
       THEN Raise(st, HandleErrors(res.errors))
       ELSE Raise(st, "APIError")
  ELSE IF st.hotwater THEN ApplyDhwEcho(st, res.data, DOMAIN res.data)
  ELSE st

(***************************************************************************)
(* State: api is the facade object (api.exc is what the call that has just *)
(* returned raised), call describes the call that has just returned and    *)
(* the replies of the device to it, until the caller takes the result;     *)
(* calls do not overlap.  Two fields of call are history: ever is TRUE once an     *)
(* update() has returned normally, polled is TRUE once an update() has     *)
(* returned normally after the last validate() began.  polls counts the    *)
(* update() calls in the specification that bounds their number.           *)
(***************************************************************************)
\* http is the request gate of the facade and the coroutines that use it,
\* for the specification that follows single requests; it is NoHttp in the
\* specifications in which a call is one step.
VARIABLES api, call, polls, http

vars ==
  <<api, call, polls, http>>

HTTP_MAX_REQUESTS ==
  1

\* __init__: Semaphore(HTTP_MAX_REQUESTS), no call running and no task.
\*   sem      permits left in _api_semaphore
\*   tasks    the coroutines that have a request to make or in flight, or
\*            whose outcome the caller has not taken yet
\*   cur      the ids of the tasks the running call awaits
\*   main     where the running call stands
\*   next     the id of the next task
NoHttp ==
  [sem |-> HTTP_MAX_REQUESTS, tasks |-> {}, cur |-> {}, main |-> "idle",
   next |-> 1, features |-> {}, checked |-> FALSE]

\* No answers: the value of call.p while no call has asked the device.
NoProbes ==
  [version |-> "-", web |-> "-", dhw |-> "-",
   sys |-> [kind |-> "none", ids |-> <<>>, exc |-> "", hasErrors |-> FALSE,
            errors |-> <<>>],
   bg |-> 0]

NoCall ==
  [op |-> "idle", first |-> TRUE, hvac |-> "-", seen_zones |-> {},
   seen_systems |-> {}, agg |-> {}, recs |-> <<>>, params |-> <<>>, errors |-> <<>>,
   hasEcho |-> FALSE, echo |-> EmptyMap, stage |-> "-", key |-> "",
   data |-> EmptyMap, ever |-> FALSE, polled |-> FALSE,
   p |-> NoProbes, upd |-> FALSE, fail |-> FALSE, array |-> FALSE,
   flags1 |-> {}, exc1 |-> OK, ret |-> None]

\* The zone records update() reads from an HVAC reply.
ReadRecords(system_id, hvac) ==
  IF hvac.kind # "body" THEN <<>>
  ELSE IF system_id = DEFAULT_SYSTEM_ID
  THEN IF hvac.hasSystems THEN Flatten(hvac.systems) ELSE <<>>
  ELSE IF hvac.hasData THEN hvac.data ELSE <<>>

SeenZones(recs) ==
  {get_system_zone_id(recs[i].systemID, recs[i].zoneID) :
     i \in {j \in 1..Len(recs) : recs[j].systemID > 0 /\ recs[j].zoneID > 0}}

SeenSystems(recs) ==
  {recs[i].systemID : i \in {j \in 1..Len(recs) : recs[j].systemID > 0}}

\* The systems the systems-aggregate reply of an update() names, when the
\* update issues that query and the reply has a "systems" array.
AggSystems(st, hvac, p) ==
  IF /\ hvac.kind = "body"
     /\ (~st.api_features_checked \/ "SYSTEMS" \in st.api_features)
     /\ p.sys.kind = "list"
  THEN Range(p.sys.ids) ELSE {}

\* The HVAC reply has a body with the zone array update() reads.
HasZoneArray(system_id, hvac) ==
  /\ hvac.kind = "body"
  /\ IF system_id = DEFAULT_SYSTEM_ID THEN hvac.hasSystems ELSE hvac.hasData

\* The exceptions a failing transport raises.
TransportErrors ==
  {TransportFailure(f) : f \in {"connect", "decode", "timeout"}}

\* A request the call has sent met a failing transport: st is the facade
\* after the call.
TransportFailed(st, hvac, p) ==
  \/ "hvac" \in st.sent /\ hvac.kind = "raise" /\ hvac.exc \in TransportErrors
  \/ "version" \in st.sent /\ p.version \in TransportErrors
  \/ "webserver" \in st.sent /\ p.web \in TransportErrors
  \/ "dhw" \in st.sent /\ p.dhw \in TransportErrors
  \/ "systems" \in st.sent /\ p.sys.kind = "raise"
       /\ p.sys.exc \in TransportErrors

DoInit(SystemIdOptions) ==
  /\ api \in {NewApi(i) : i \in SystemIdOptions}
  /\ call = NoCall
  /\ polls = 0
  /\ http = NoHttp

DoUpdate(Hvac, Probes) ==
  /\ call.op = "idle"
  /\ UNCHANGED http
  /\ \E hvac \in Hvac, p \in Probes :
       /\ api' = Update([api EXCEPT !.exc = OK, !.sent = {}, !.wire = {}], hvac, p)
       /\ call' = [NoCall EXCEPT
                     !.ever = call.ever \/ api'.exc = OK,
                     !.polled = call.polled \/ api'.exc = OK,
                     !.op = "update", !.first = api.first_update,
                     !.hvac = hvac.kind,
                     !.recs = ReadRecords(api.system_id, hvac),
                     !.seen_zones = SeenZones(ReadRecords(api.system_id, hvac)),
                     !.seen_systems = SeenSystems(ReadRecords(api.system_id, hvac)),
                     !.agg = AggSystems(api, hvac, p),
                     !.p = p, !.fail = TransportFailed(api', hvac, p),
                     !.array = HasZoneArray(api.system_id, hvac)]

DoValidate(Hvac, Probes) ==
  /\ call.op = "idle"
  /\ UNCHANGED http
  /\ \E hvac \in Hvac, p \in Probes :
       /\ api' = Validate([api EXCEPT !.exc = OK, !.sent = {}, !.wire = {}], hvac, p)
       /\ call' = [NoCall EXCEPT !.op = "validate", !.first = api.first_update,
                                 !.hvac = hvac.kind, !.p = p,
                                 !.ret = ValidateReturn(api'),
                                 !.fail = TransportFailed(api', hvac, p),
                                 !.ever = call.ever, !.polled = FALSE]

\* A call of check_features(update).
DoCheckFeatures(Probes, Updates) ==
  /\ call.op = "idle"
  /\ UNCHANGED http
  /\ \E p \in Probes, update \in Updates :
       /\ api' = CheckFeatures([api EXCEPT !.exc = OK, !.sent = {}, !.wire = {}], p, update)
       /\ call' = [NoCall EXCEPT !.op = "check_features",
                                 !.first = api.first_update,
                                 !.p = p, !.upd = update,
                                 !.ever = call.ever, !.polled = call.polled]

\* A run of the coroutine check_feature_dhw(update) on the reply res to its
\* request; flags1 is the feature flags before it.
DoCheckFeatureDhw(Replies, Updates) ==
  /\ call.op = "idle"
  /\ UNCHANGED http
  /\ \E res \in Replies, update \in Updates :
       /\ api' = CheckFeatureDhw([api EXCEPT !.exc = OK, !.sent = {}, !.wire = {}],
                                 [NoProbes EXCEPT !.dhw = DhwBody(res)], update)
       /\ call' = [NoCall EXCEPT !.op = "check_feature_dhw",
                                 !.first = api.first_update,
                                 !.key = res.kind, !.hasEcho = res.hasData,
                                 !.data = res.data, !.upd = update,
                                 !.flags1 = api.api_features,
                                 !.ever = call.ever, !.polled = call.polled]

\* The caller of a check_features takes its result, or catches what it
\* raised, and calls check_features again at once, with the same argument;
\* the device answers every probe as it did the first time.  flags1 and
\* exc1 are the feature flags and the outcome of the first call.
DoCheckFeaturesAgain(Backgrounds) ==
  /\ call.op = "check_features"
  /\ UNCHANGED http
  /\ \E bg \in Backgrounds :
       /\ api' = CheckFeatures([api EXCEPT !.exc = OK, !.sent = {}, !.wire = {}],
                               [call.p EXCEPT !.bg = bg], call.upd)
       /\ call' = [call EXCEPT !.op = "check_features_again",
                               !.first = api.first_update,
                               !.p = [call.p EXCEPT !.bg = bg],
                               !.flags1 = api.api_features,
                               !.exc1 = api.exc]

DoSetHvacParameters(Params, Replies) ==
  /\ call.op = "idle"
  /\ UNCHANGED http
  /\ \E params \in Params, res \in Replies :
       LET o == SetHvacOutcome(api, params, res)
       IN  /\ api' = SetHvacParameters([api EXCEPT !.exc = OK, !.sent = {}, !.wire = {}],
                                       params, res)
           /\ call' = [NoCall EXCEPT
                         !.op = "set_hvac_parameters", !.first = api.first_update,
                         !.params = params, !.errors = res.errors,
                         !.hasEcho = res.hasData, !.echo = res.data,
                         !.stage = o.stage, !.key = o.key, !.data = o.data,
                         !.ever = call.ever, !.polled = call.polled]

DoSetDhwParameters(Params, Replies) ==
  /\ call.op = "idle"
  /\ UNCHANGED http
  /\ \E params \in Params, res \in Replies :
       /\ api' = SetDhwParameters([api EXCEPT !.exc = OK, !.sent = {}, !.wire = {}], params, res)
       /\ call' = [NoCall EXCEPT
                     !.op = "set_dhw_parameters", !.first = api.first_update,
                     !.params = params, !.errors = res.errors,
                     !.hasEcho = res.hasData, !.echo = res.data,
                     !.ever = call.ever, !.polled = call.polled]

\* A call of data().
DoData ==
  /\ call.op = "idle"
  /\ api' = FacadeData([api EXCEPT !.exc = OK, !.sent = {}, !.wire = {}])
  /\ call' = [NoCall EXCEPT !.op = "data", !.first = api.first_update,
                            !.ever = call.ever, !.polled = call.polled]
  /\ UNCHANGED <<polls, http>>

\* The caller takes the result of the call, or catches what it raised.
Return ==
  /\ call.op # "idle"
  /\ api' = [api EXCEPT !.exc = OK, !.sent = {}, !.wire = {}]
  /\ call' = [NoCall EXCEPT !.ever = call.ever, !.polled = call.polled]
  /\ UNCHANGED <<polls, http>>

(***************************************************************************)
(* Replies of the device.                                                  *)
(***************************************************************************)
ZoneRecord(s, z, hasMode, mode, hasModes, modes, hasMaster, master, on) ==
  [systemID |-> s, zoneID |-> z, hasMode |-> hasMode, mode |-> mode,
   hasModes |-> hasModes, modes |-> modes, hasMaster |-> hasMaster,
   master_zoneID |-> master, on |-> on,
   units |-> 0, maxTemp |-> 0, hasSetpoint |-> FALSE, setpoint |-> 0,
   hasCoolMax |-> FALSE, coolmaxtemp |-> 0, hasCoolSet |-> FALSE,
   coolsetpoint |-> 0, hasHeatMax |-> FALSE, heatmaxtemp |-> 0,
   hasHeatSet |-> FALSE, heatsetpoint |-> 0,
   radio |-> FALSE, hasErrors |-> FALSE, errors |-> <<>>,
   hasEco |-> FALSE, eco_adapt |-> "",
   hasAirDemand |-> FALSE, air_demand |-> 0,
   hasFloorDemand |-> FALSE, floor_demand |-> 0,
   hasColdStage |-> FALSE, coldStage |-> 0,
   hasColdStages |-> FALSE, coldStages |-> 0,
   hasHeatStage |-> FALSE, heatStage |-> 0,
   hasHeatStages |-> FALSE, heatStages |-> 0]

HvacNone ==
  [kind |-> "none", exc |-> "", hasSystems |-> FALSE, systems |-> <<>>,
   hasData |-> FALSE, data |-> <<>>]

HvacRaise(e) ==
  [HvacNone EXCEPT !.kind = "raise", !.exc = e]

\* A reply with a body that has neither a "systems" nor a "data" key.
HvacBare ==
  [HvacNone EXCEPT !.kind = "body"]

\* The body a controller sends for the zone records recs: one "systems"
\* array (the records in one system object, or one object per record) when
\* all systems are queried, one "data" array for a single system.
HvacBody(system_id, recs, split) ==
  IF system_id = DEFAULT_SYSTEM_ID
  THEN [HvacBare EXCEPT !.hasSystems = TRUE,
                        !.systems = IF split
                                    THEN [i \in 1..Len(recs) |-> <<recs[i]>>]
                                    ELSE <<recs>>]
  ELSE [HvacBare EXCEPT !.hasData = TRUE, !.data = recs]

HvacReplies(system_id, Payloads, Splits) ==
  {HvacNone, HvacRaise("InvalidHost"), HvacBare}
  \cup {HvacBody(system_id, recs, split) : recs \in Payloads, split \in Splits}

SysNone ==
  [kind |-> "none", ids |-> <<>>, exc |-> "", hasErrors |-> FALSE,
   errors |-> <<>>]

SysRaise(e) ==
  [SysNone EXCEPT !.kind = "raise", !.exc = e]

SysReplies(Ids, n) ==
  {SysNone, [SysNone EXCEPT !.kind = "nokey"]}
  \cup {[SysNone EXCEPT !.kind = "list", !.ids = ids] : ids \in SeqsUpTo(Ids, n)}

PutNone ==
  [kind |-> "none", exc |-> "", status |-> 200, hasData |-> FALSE,
   data |-> EmptyMap, hasErrors |-> FALSE, errors |-> <<>>]

PutRaise(e) ==
  [PutNone EXCEPT !.kind = "raise", !.exc = e]

PutErrors(status, errors) ==
  [PutNone EXCEPT !.kind = "body", !.status = status, !.hasErrors = TRUE,
                  !.errors = errors]

PutEcho(data) ==
  [PutNone EXCEPT !.kind = "body", !.hasData = TRUE, !.data = data]

\* An echoed object with the given keys and values.
Obj(pairs) ==
  [k \in Keys(pairs) |-> Get(pairs, k)]

(***************************************************************************)
(* Specification Spec: the life of one facade object under validate,       *)
(* update, set_hvac_parameters and set_dhw_parameters.  The controller     *)
(* reports zones of systems 1..MaxSystemId with zone ids 0..MaxZoneId and  *)
(* a record of system 0 (id 0 is what a record without the key reads as),  *)
(* at most MaxRecords zone records in a reply.                             *)
(***************************************************************************)
LifeRecords ==
  {ZoneRecord(0, 0, TRUE, HEATING, FALSE, <<>>, FALSE, 0, 1)}
  \cup {ZoneRecord(s, z, TRUE, HEATING, FALSE, <<>>, FALSE, 0, 1) :
           s \in 1..MaxSystemId, z \in 0..MaxZoneId}

LifeHvac(system_id) ==
  HvacReplies(system_id, SeqsUpTo(LifeRecords, MaxRecords), {FALSE})

LifeValidateHvac(system_id) ==
  HvacReplies(system_id, {<<>>}, {FALSE})

LifeProbes ==
  [version : {"new"}, web : {"nomac"}, dhw : {"invalid"},
   sys : SysReplies(1..MaxSystemId, 1), bg : {0}]

LifeParams ==
  {<<<<"systemID", 1>>, <<"zoneID", 1>>, <<"on", v>>>> : v \in {0, 1}}

LifeReplies ==
  {PutNone, PutRaise("InvalidHost"), PutErrors(200, <<"zoneid out of range">>)}
  \cup {PutEcho(Obj(<<<<"systemID", 1>>, <<"zoneID", 1>>, <<"on", v>>>>)) :
          v \in {0, 1}}

LifeDhwParams ==
  {<<<<"systemID", 0>>, <<"acs_power", 1>>>>}

LifeDhwReplies ==
  {PutNone, PutErrors(200, <<"acs not connected">>),
   PutEcho(Obj(<<<<"systemID", 0>>, <<"acs_power", 1>>>>))}

Init ==
  DoInit({DEFAULT_SYSTEM_ID, 1})

Validate_ ==
  DoValidate(LifeValidateHvac(api.system_id), LifeProbes) /\ UNCHANGED polls

Update_ ==
  DoUpdate(LifeHvac(api.system_id), LifeProbes) /\ UNCHANGED polls

SetHvac ==
  DoSetHvacParameters(LifeParams, LifeReplies) /\ UNCHANGED polls

SetDhw ==
  DoSetDhwParameters(LifeDhwParams, LifeDhwReplies) /\ UNCHANGED polls

Next ==
  \/ Validate_
  \/ Update_
  \/ SetHvac
  \/ SetDhw
  \/ Return

Spec ==
  Init /\ [][Next]_vars

(***************************************************************************)
(* Properties of Spec.                                                     *)
(***************************************************************************)
Returned(op) ==
  call.op = op /\ api.exc = OK

\* The facade without the outcome of the call.
Data(a) ==
  [a EXCEPT !.exc = OK, !.sent = {}, !.wire = {}]

\* C1: after an update() that returns normally, a known zone is available
\* exactly when a record for it was in the HVAC reply of that update.
C1_ZoneAvailableIffReported ==
  Returned("update") =>
    \A k \in DOMAIN api.zones :
      api.zones[k].available <=> k \in call.seen_zones

\* C2: after an update() that returns normally, a known system is available
\* exactly when a zone record with its systemID was in the HVAC reply of that
\* update or the systems-aggregate reply of that update had a record for it.
C2_SystemAvailableIffReported ==
  Returned("update") =>
    \A i \in DOMAIN api.systems :
      api.systems[i].available <=> i \in call.seen_systems \cup call.agg

\* C3: no call of validate, update, set_hvac_parameters or
\* set_dhw_parameters removes a system id or a zone key, and every id and
\* key keeps denoting the object it denoted before the call.
C3_EntitiesKept ==
  [][/\ DOMAIN api.systems \subseteq DOMAIN api'.systems
     /\ DOMAIN api.zones \subseteq DOMAIN api'.zones
     /\ \A i \in DOMAIN api.systems :
          /\ api'.systems[i].obj = api.systems[i].obj
          /\ api'.systems[i].id = api.systems[i].id
     /\ \A k \in DOMAIN api.zones :
          /\ api'.zones[k].obj = api.zones[k].obj
          /\ api'.zones[k].id = api.zones[k].id
          /\ api'.zones[k].system_id = api.zones[k].system_id]_vars

\* C3 witness: a later update() has returned normally with a reply that
\* reports a known zone again and omits another known zone.
C3_Witness ==
  /\ Returned("update")
  /\ ~call.first
  /\ \E k \in DOMAIN api.zones : api.zones[k].available
  /\ \E k \in DOMAIN api.zones : ~api.zones[k].available

\* C4 as stated: an update() whose HVAC reply has no body raises APIError
\* exactly when no update() has returned normally before it; either way the
\* data of the facade is what it was before the call.
C4_EmptyFatalOnVeryFirstPoll ==
  [][(call'.op = "update" /\ call'.hvac = "none") =>
       /\ (api'.exc = "APIError") <=> ~call.ever
       /\ api'.exc \in {"APIError", OK}
       /\ Data(api') = Data(api)]_vars

\* C4 amended: an update() whose HVAC reply has no body raises APIError
\* exactly when no update() has returned normally since the object was
\* constructed or since the last validate() began, and returns normally
\* otherwise; either way the data of the facade is what it was before.
C4_EmptyFatalUntilPolled ==
  [][(call'.op = "update" /\ call'.hvac = "none") =>
       /\ (api'.exc = "APIError") <=> ~call.polled
       /\ api'.exc \in {"APIError", OK}
       /\ Data(api') = Data(api)]_vars

\* C4 witness: an update() without body has raised APIError after an
\* earlier update() had returned normally and populated the facade.
C4_Witness ==
  /\ call.op = "update" /\ call.hvac = "none"
  /\ api.exc = "APIError"
  /\ call.ever
  /\ DOMAIN api.zones # {}

(***************************************************************************)
(* Specification SpecCmd: commands on a facade that knows zone 1:1 at      *)
(* most.  A command requests at most MaxParams of the keys systemID,       *)
(* zoneID, mode and on, with ids 0..MaxCmdId; the device echoes any subset *)
(* of these keys with any of these values, or answers with an error list   *)
(* of at most MaxErrors messages.                                          *)
(***************************************************************************)
MaxParams ==
  3

MaxCmdId ==
  2

MaxErrors ==
  2

CmdValues(key) ==
  CASE key \in {"systemID", "zoneID"} -> 0..MaxCmdId
    [] key = "mode"                   -> {COOLING, HEATING}
    [] key = "on"                     -> {0, 1}

CmdKeys ==
  {"systemID", "zoneID", "mode", "on"}

CmdPairs ==
  {<<k, v>> : k \in CmdKeys, v \in UNION {CmdValues(j) : j \in CmdKeys}}

\* Parameter dicts: lists of pairs with distinct keys.
CmdParams ==
  {ps \in SeqsUpTo({kv \in CmdPairs : kv[2] \in CmdValues(kv[1])}, MaxParams) :
     \A i, j \in 1..Len(ps) : ps[i][1] = ps[j][1] => i = j}

CmdEchoes ==
  UNION {{f \in [K -> UNION {CmdValues(j) : j \in CmdKeys}] :
            \A k \in K : f[k] \in CmdValues(k)} : K \in SUBSET CmdKeys}

ErrorStrings ==
  {"acs not connected", "iaqsensorid not available",
   "Method not provided or not supported", "request malformed",
   "systemid not avaiable", "systemid not provided", "systemid out of range",
   "zoneid not avaiable", "zoneid not provided", "zoneid out of range",
   "unknown error"}

CmdErrorReplies ==
  {PutNone, PutRaise("InvalidHost")}
  \cup {[PutNone EXCEPT !.kind = "body", !.status = status] : status \in {200, 400}}
  \cup {PutErrors(status, errors) :
          status \in {200, 400}, errors \in SeqsUpTo(ErrorStrings, MaxErrors)}

CmdRecords ==
  {ZoneRecord(1, 1, TRUE, HEATING, FALSE, <<>>, FALSE, 0, on) : on \in {0, 1}}

CmdHvac(system_id) ==
  HvacReplies(system_id, SeqsUpTo(CmdRecords, 1), {FALSE})

CmdProbes ==
  [version : {"new"}, web : {"nomac"}, dhw : {"invalid"},
   sys : SysReplies({1}, 1), bg : {0}]

InitCmd ==
  DoInit({DEFAULT_SYSTEM_ID})

UpdateCmd ==
  DoUpdate(CmdHvac(api.system_id), CmdProbes) /\ UNCHANGED polls

SetHvacEcho ==
  DoSetHvacParameters(CmdParams, {PutEcho(f) : f \in CmdEchoes})
  /\ UNCHANGED polls

SetHvacError ==
  DoSetHvacParameters(LifeParams, CmdErrorReplies) /\ UNCHANGED polls

SetDhwError ==
  DoSetDhwParameters(LifeDhwParams, CmdErrorReplies \cup LifeDhwReplies)
  /\ UNCHANGED polls

NextCmd ==
  \/ UpdateCmd
  \/ SetHvacEcho
  \/ SetHvacError
  \/ SetDhwError
  \/ Return

SpecCmd ==
  InitCmd /\ [][NextCmd]_vars

(***************************************************************************)
(* Specification SpecModes: the first MaxPolls updates of a facade whose   *)
(* controller reports zones 1..MaxModeZoneId of system 1, at most          *)
(* MaxModeRecords of them in a reply and none of them twice.  A record is  *)
(* that of a master (mode and modes), of a slave (mode, with or without a  *)
(* master_zoneID) or has no mode at all.                                   *)
(***************************************************************************)
MaxModeZoneId ==
  3

MaxModeRecords ==
  2

MaxPolls ==
  2

ModeLists ==
  {<<>>, <<COOLING, HEATING, AUTO>>, <<STOP, HEATING>>}

ModeRecords ==
  UNION {
    {ZoneRecord(1, z, TRUE, m, TRUE, L, FALSE, 0, 1) :
       m \in {COOLING, HEATING}, L \in ModeLists}
    \cup {ZoneRecord(1, z, TRUE, HEATING, FALSE, <<>>, FALSE, 0, 1),
          ZoneRecord(1, z, TRUE, HEATING, FALSE, <<>>, TRUE, MaxModeZoneId, 1),
          ZoneRecord(1, z, FALSE, 0, FALSE, <<>>, FALSE, 0, 1)} :
    z \in 1..MaxModeZoneId}

ModePayloads ==
  {recs \in SeqsUpTo(ModeRecords, MaxModeRecords) :
     \A i, j \in 1..Len(recs) : recs[i].zoneID = recs[j].zoneID => i = j}

ModeHvac(system_id) ==
  HvacReplies(system_id, ModePayloads, BOOLEAN)

ModeProbes ==
  [version : {"new"}, web : {"nomac"}, dhw : {"invalid"},
   sys : {[SysNone EXCEPT !.kind = "nokey"]}, bg : {0}]

InitModes ==
  DoInit({DEFAULT_SYSTEM_ID})

UpdateModes ==
  /\ polls < MaxPolls
  /\ DoUpdate(ModeHvac(api.system_id), ModeProbes)
  /\ polls' = polls + 1

NextModes ==
  \/ UpdateModes
  \/ Return

SpecModes ==
  InitModes /\ [][NextModes]_vars

(***************************************************************************)
(* Properties of SpecModes.                                                *)
(***************************************************************************)
\* L followed by STOP, STOP not added again when L has it.
WithStop(L) ==
  IF STOP \in Range(L) THEN L ELSE Append(L, STOP)

\* Record i of the reply is a master record M: it has a mode and a modes
\* list, and no other record of the reply for its system has a modes key.
MasterRecord(i) ==
  /\ call.recs[i].hasMode /\ call.recs[i].hasModes
  /\ \A j \in 1..Len(call.recs) :
       (call.recs[j].systemID = call.recs[i].systemID /\ call.recs[j].hasModes)
         => j = i

\* Record j of the reply is a slave record V of the system of record i: it
\* has no modes key and no master_zoneID.
SlaveRecord(i, j) ==
  /\ j # i
  /\ call.recs[j].systemID = call.recs[i].systemID
  /\ ~call.recs[j].hasModes /\ ~call.recs[j].hasMaster

ZoneOf(j) ==
  api.zones[get_system_zone_id(call.recs[j].systemID, call.recs[j].zoneID)]

\* C5 as stated: after an update() whose reply has a master record M (mode
\* m, modes L) and a slave record V of the same system, in either order,
\* the mode of the system is m, V is no master and V.get_modes() is L
\* followed by STOP.
C5_SlaveInheritsModes ==
  Returned("update") =>
    \A i, j \in 1..Len(call.recs) :
      (MasterRecord(i) /\ SlaveRecord(i, j)) =>
        /\ api.systems[call.recs[i].systemID].mode = OperationMode(call.recs[i].mode)
        /\ ~ZoneOf(j).master
        /\ ZoneGetModes(ZoneOf(j)) = WithStop(DecodeModes(call.recs[i].modes))

\* C5 amended: when, in addition, every record of the system other than M
\* has a mode key and V holds no master-zone id from an earlier record
\* other than the id of M, the mode of the system is m, V is no master and
\* V.get_modes() is M.get_modes(): L followed by STOP when L is not empty,
\* m followed by STOP when L is empty, STOP never added twice.
C5_SlaveInheritsMasterModes ==
  Returned("update") =>
    \A i, j \in 1..Len(call.recs) :
      (/\ MasterRecord(i) /\ SlaveRecord(i, j)
       /\ \A n \in 1..Len(call.recs) :
            call.recs[n].systemID = call.recs[i].systemID => call.recs[n].hasMode
       /\ ZoneOf(j).master_zone \in {None, call.recs[i].zoneID}) =>
        /\ api.systems[call.recs[i].systemID].mode = OperationMode(call.recs[i].mode)
        /\ ~ZoneOf(j).master
        /\ ZoneGetModes(ZoneOf(j)) =
             IF Len(call.recs[i].modes) = 0
             THEN WithStop(<<OperationMode(call.recs[i].mode)>>)
             ELSE WithStop(DecodeModes(call.recs[i].modes))

\* C5 witness: an update() has returned normally for a reply that lists the
\* slave V before its master M, whose modes list is not empty and whose
\* mode is not the mode V reports.
C5_Witness ==
  /\ Returned("update")
  /\ \E i, j \in 1..Len(call.recs) :
       /\ j < i
       /\ MasterRecord(i) /\ SlaveRecord(i, j)
       /\ call.recs[j].hasMode
       /\ call.recs[j].mode # call.recs[i].mode
       /\ Len(call.recs[i].modes) > 0
       /\ ZoneOf(j).master_zone = None

(***************************************************************************)
(* Properties of SpecCmd.                                                  *)
(***************************************************************************)
IdKeys ==
  {"systemID", "zoneID"}

\* A set_hvac_parameters call that was answered with an echoed data object.
Echoed ==
  call.op = "set_hvac_parameters" /\ call.hasEcho

\* The echo names the zone the request names, and the facade knows it.
EchoOnTarget ==
  /\ IdKeys \subseteq Keys(call.params)
  /\ IdKeys \subseteq DOMAIN call.echo
  /\ \A k \in IdKeys : Get(call.params, k) # 0 /\ call.echo[k] = Get(call.params, k)
  /\ get_system_zone_id(call.echo["systemID"], call.echo["zoneID"])
       \in DOMAIN api.zones

\* C6: when every requested key is echoed, the ids of the echo are the
\* requested ids of a known zone, and the echo differs from the request in
\* the value of a key other than systemID and zoneID, the call raises
\* ParamUpdateFailure.
C6_ValueMismatchRaises ==
  (/\ Echoed
   /\ EchoOnTarget
   /\ Keys(call.params) \subseteq DOMAIN call.echo
   /\ \E k \in Keys(call.params) \ IdKeys : call.echo[k] # Get(call.params, k))
  => api.exc = "ParamUpdateFailure"

KnownVendorErrors ==
  {"systemid out of range", "systemid not avaiable", "systemid not provided",
   "zoneid out of range", "zoneid not avaiable", "zoneid not provided",
   "Method not provided or not supported", "request malformed",
   "acs not connected"}

\* The exceptions exceptions.py declares for the vendor error strings.
SpecificException(e) ==
  CASE e = "systemid out of range" -> {"SystemOutOfRange"}
    [] e = "systemid not avaiable" -> {"SystemNotAvailable"}
    [] e = "zoneid out of range"   -> {"ZoneOutOfRange"}
    [] e = "zoneid not avaiable"   -> {"ZoneNotAvailable"}
    [] e = "zoneid not provided"   -> {"ZoneNotProvided"}
    [] e = "Method not provided or not supported" -> {"InvalidMethod"}
    [] e = "request malformed"     -> {"RequestMalformed"}
    [] e = "acs not connected"     -> {"HotWaterNotAvailable"}
    [] OTHER                       -> {}

\* C7: a command whose reply has no data object and an error list that
\* starts with a known vendor error string raises the exception of that
\* string, which is not the generic APIError, for each of the nine strings
\* of the claim.
C7_VendorErrorsRaiseSpecific ==
  (/\ call.op \in {"set_hvac_parameters", "set_dhw_parameters"}
   /\ ~call.hasEcho
   /\ Len(call.errors) > 0
   /\ call.errors[1] \in KnownVendorErrors)
  => /\ api.exc \notin {OK, "APIError"}
     /\ SpecificException(call.errors[1]) # {} =>
          api.exc \in SpecificException(call.errors[1])

\* Key i of the request differs from the echo in an id that is not 0.
IdMismatch(i) ==
  /\ call.params[i][1] \in IdKeys
  /\ call.params[i][2] # 0
  /\ call.params[i][1] \in DOMAIN call.echo
  /\ call.echo[call.params[i][1]] # call.params[i][2]

MismatchException(key) ==
  IF key = "systemID" THEN "InvalidSystem" ELSE "InvalidZone"

Fails(i) ==
  LET key == call.params[i][1]
  IN  \/ /\ key \in IdKeys
         /\ call.params[i][2] # 0
         /\ (key \notin DOMAIN call.echo \/ call.echo[key] # call.params[i][2])
      \/ key \notin DOMAIN call.data

C27_RaisingCommandChangesNothing ==
  [][(call'.op = "set_hvac_parameters" /\ api'.exc # OK) =>
       /\ api'.systems = api.systems
       /\ api'.zones = api.zones]_vars

\* C27 witness: a command has raised InvalidZone for a requested zone id
\* that differs from the echoed one, while the echo names a known zone and
\* carries an on value that differs from the one the zone holds.
C27_Witness ==
  /\ Echoed
  /\ call.stage = "check"
  /\ api.exc = "InvalidZone"
  /\ IdKeys \cup {"on"} \subseteq DOMAIN call.echo
  /\ get_system_zone_id(call.echo["systemID"], call.echo["zoneID"])
       \in DOMAIN api.zones
  /\ api.zones[get_system_zone_id(call.echo["systemID"], call.echo["zoneID"])].on
       # (call.echo["on"] # 0)

\* C9: after set_hvac_parameters has returned normally, the target zone
\* and its system hold the echoed values: the zone's mode and the system's
\* mode are the echoed mode, the zone's on flag is the echoed on.
C9_EchoApplied ==
  (Echoed /\ api.exc = OK) =>
    LET sid == call.data["systemID"]
        zone == api.zones[get_system_zone_id(sid, call.data["zoneID"])]
    IN  /\ "mode" \in DOMAIN call.data =>
             /\ zone.mode = OperationMode(call.data["mode"])
             /\ api.systems[sid].mode = OperationMode(call.data["mode"])
        /\ "on" \in DOMAIN call.data => zone.on = (call.data["on"] # 0)

\* C10: a requested mode that the echo omits does not raise: the validated
\* data carry the requested mode, the key mode never fails the validation,
\* and the response of a call that returns normally carries it too.
C10_NoFeedbackForced ==
  (/\ Echoed
   /\ "mode" \in Keys(call.params)
   /\ "mode" \notin DOMAIN call.echo)
  => /\ call.key # "mode"
     /\ api.exc # "InvalidParam" \/ call.key \in Keys(call.params) \ {"mode"}
     /\ "mode" \in DOMAIN call.data
     /\ call.data["mode"] = Get(call.params, "mode")
     /\ (EchoOnTarget /\ Keys(call.params) \ {"mode"} \subseteq DOMAIN call.echo)
          => api.exc = OK

\* C10 witness: such a call has returned normally.
C10_Witness ==
  /\ Echoed
  /\ "mode" \in Keys(call.params)
  /\ "mode" \notin DOMAIN call.echo
  /\ api.exc = OK

(***************************************************************************)
(* Specification SpecFeat: feature probing and feature refresh.  One       *)
(* facade for all systems is driven by check_features (as validate calls   *)
(* it) and update against a device that answers each of the version, web-server,          *)
(* systems-aggregate and hot-water queries with a body that has or lacks   *)
(* the expected structure, with an error, or not at all because the        *)
(* transport fails.  Of the tasks of a gather behind one that has raised,  *)
(* none or up to MaxBackground complete before the caller looks.           *)
(***************************************************************************)
MaxBackground ==
  2

Backgrounds ==
  {0, MaxBackground}

FeatRecords ==
  {ZoneRecord(1, 1, TRUE, HEATING, FALSE, <<>>, FALSE, 0, 1)}

FeatHvac(system_id) ==
  {HvacNone}
  \cup {HvacRaise(TransportFailure(f)) : f \in {"connect", "timeout"}}
  \cup {HvacBody(system_id, recs, FALSE) : recs \in SeqsUpTo(FeatRecords, 1)}

FeatProbes ==
  [version : {"new", "noversion", "InvalidMethod"},
   web : {"nomac", "mac", "InvalidMethod"},
   dhw : {"invalid", "valid", "InvalidMethod", "HotWaterNotAvailable",
          TransportFailure("timeout")},
   sys : {[SysNone EXCEPT !.kind = "nokey"],
          [SysNone EXCEPT !.kind = "list", !.ids = <<1>>],
          SysRaise("InvalidMethod"), SysRaise("SystemOutOfRange"),
          SysRaise(TransportFailure("connect"))},
   bg : Backgrounds]

InitFeat ==
  DoInit({DEFAULT_SYSTEM_ID})

CheckFeaturesFeat ==
  DoCheckFeatures(FeatProbes, {FALSE}) /\ UNCHANGED polls

CheckFeaturesAgain ==
  DoCheckFeaturesAgain(Backgrounds) /\ UNCHANGED polls

UpdateFeat ==
  DoUpdate(FeatHvac(api.system_id), FeatProbes) /\ UNCHANGED polls

NextFeat ==
  \/ CheckFeaturesFeat
  \/ CheckFeaturesAgain
  \/ UpdateFeat
  \/ Return

SpecFeat ==
  InitFeat /\ [][NextFeat]_vars

AllProbesDowngrade(p) ==
  /\ p.version \in {"noversion", "InvalidMethod"}
  /\ p.web \in {"nomac", "InvalidMethod"}
  /\ p.dhw \in {"invalid", "InvalidMethod"}
  /\ \/ p.sys.kind = "nokey"
     \/ p.sys.kind = "raise" /\ p.sys.exc = "InvalidMethod"

\* The answer of some probe is an error other than "Method not provided
\* or not supported".
SomeProbeFails(p) ==
  \/ p.version \notin Bodies \cup {"InvalidMethod"}
  \/ p.web \notin Bodies \cup {"InvalidMethod"}
  \/ p.dhw \notin Bodies \cup {"InvalidMethod"}
  \/ p.sys.kind = "raise" /\ p.sys.exc # "InvalidMethod"

\* C12: a check_features whose four probes are all answered without the
\* expected structure or with "Method not provided or not supported"
\* raises nothing and leaves the feature flags as they were; a
\* check_features one of whose probes is answered with another error
\* raises.
C12_ProbesDowngradeSilently ==
  [][(call'.op = "check_features") =>
       /\ AllProbesDowngrade(call'.p) =>
            (api'.exc = OK /\ api'.api_features = api.api_features)
       /\ SomeProbeFails(call'.p) => api'.exc # OK]_vars

\* C23: api_feature(ApiFeature.HVAC) is true in every reachable state,
\* before probing, after probing and after any poll.
C23_HvacAlwaysReported ==
  api_feature(api, "HVAC")

\* The optional features are reported exactly when they have been set.
OptionalFeaturesReported ==
  \A f \in {"SYSTEMS", "WEBSERVER", "HOT_WATER"} :
    api_feature(api, f) <=> f \in api.api_features

\* C36: no step clears a feature flag: the flags after a probe or a poll,
\* whether it returns or raises, include the flags before it.
C36_FeatureFlagsOnlyGrow ==
  [][api.api_features \subseteq api'.api_features]_vars

\* C36 witness: a check_features whose web-server probe found no MAC address
\* and whose hot-water probe found no valid record has returned, and the
\* WEBSERVER and HOT_WATER flags of an earlier probe are still set.
C36_Witness ==
  /\ call.op = "check_features"
  /\ api.exc = OK
  /\ call.p.web = "nomac"
  /\ call.p.dhw = "invalid"
  /\ {"WEBSERVER", "HOT_WATER"} \subseteq api.api_features

\* The endpoint update_features queries for a feature flag.
FeatureEndpoint(feature) ==
  CASE feature = "SYSTEMS"   -> "systems"
    [] feature = "WEBSERVER" -> "webserver"
    [] feature = "HOT_WATER" -> "dhw"

\* C13 as stated: an update() of a facade whose features have been probed
\* sends the systems-aggregate, hot-water and web-server queries exactly
\* for the feature flags that are set.
C13_QueriesExactlyFlagged ==
  [][(call'.op = "update" /\ api.api_features_checked) =>
       api'.sent \ {"hvac"} =
         {FeatureEndpoint(f) : f \in api.api_features}]_vars

\* C13 amended: such an update() sends none of the three queries for a
\* flag that is clear, and sends the query for every flag that is set when
\* its HVAC reply has a body and it returns normally; an update() whose
\* HVAC request raises or whose HVAC reply has no body sends none of them.
C13_QueriesOnlyFlagged ==
  [][(call'.op = "update" /\ api.api_features_checked) =>
       /\ api'.sent \ {"hvac"} \subseteq
            {FeatureEndpoint(f) : f \in api.api_features}
       /\ (call'.hvac = "body" /\ api'.exc = OK) =>
            api'.sent \ {"hvac"} =
              {FeatureEndpoint(f) : f \in api.api_features}
       /\ call'.hvac # "body" => api'.sent = {"hvac"}]_vars

\* C13 witness: an update() of a probed facade has returned normally
\* having queried a flagged endpoint and left an unflagged one alone.
C13_Witness ==
  /\ Returned("update")
  /\ ~call.first
  /\ call.hvac = "body"
  /\ api.api_features_checked
  /\ "dhw" \in api.sent
  /\ "webserver" \notin api.sent

\* C15, for update(): when the transport of a request of an update()
\* fails, the update() raises InvalidHost and the systems, the zones and
\* the other data of the facade are what they were before the call.
C15_TransportFailureKeepsData ==
  [][(call'.op = "update" /\ call'.fail) =>
       /\ api'.exc = "InvalidHost"
       /\ Data(api') = Data(api)]_vars

(***************************************************************************)
(* Further properties of Spec.                                             *)
(***************************************************************************)
\* C25: after an update() that is abandoned because the HVAC reply had no
\* body, on a poll after the first, every System and every Zone is
\* unavailable.
C25_AbandonedPollMarksUnavailable ==
  (call.op = "update" /\ call.hvac = "none" /\ api.exc = OK) =>
    /\ \A i \in DOMAIN api.systems : ~api.systems[i].available
    /\ \A k \in DOMAIN api.zones : ~api.zones[k].available

\* C39: an update() whose HVAC reply has no body raises APIError exactly
\* when no update() has run to its end since the facade was constructed or
\* since the last validate() began; _first_update is set exactly in that
\* case, so an update() that raised part-way leaves it set and a validate()
\* sets it again.
C39_EmptyFatalUntilCompletedPoll ==
  [][/\ api'.first_update <=> ~call'.polled
     /\ (call'.op = "update" /\ call'.hvac = "none") =>
          ((api'.exc = "APIError") <=> ~call.polled)]_vars

\* C39 witness: an update() without body has raised APIError on a facade
\* that holds zones although no update() has ever returned normally: an
\* earlier update() merged its HVAC reply and raised in the feature refresh.
C39_Witness ==
  /\ call.op = "update" /\ call.hvac = "none"
  /\ api.exc = "APIError"
  /\ ~call.ever
  /\ DOMAIN api.zones # {}

\* An update() without body has raised APIError after an update() had
\* returned normally and a validate() had been called since.
EmptyFatalAfterValidate ==
  /\ call.op = "update" /\ call.hvac = "none"
  /\ api.exc = "APIError"
  /\ call.ever

\* C31: an update() that folds a systems reply with a record list into
\* the model raises nothing: a record whose systemID has no System is
\* skipped.
C31_UnknownSystemRecordSkipped ==
  (call.op = "update" /\ "systems" \in api.sent /\ call.p.sys.kind = "list") =>
    api.exc = OK

\* C16: once an update() has returned normally, an update() whose HVAC
\* reply has a body without the zone array raises nothing and leaves the
\* systems and zones with the values they had.
C16_ReplyWithoutZonesSwallowed ==
  [][(call'.op = "update" /\ call.ever
        /\ call'.hvac = "body" /\ ~call'.array) =>
       /\ api'.exc = OK
       /\ Data(api') = Data(api)]_vars

(***************************************************************************)
(* Further properties of SpecModes.                                        *)
(***************************************************************************)
\* Record j of the reply is that of a slave that names a master zone the
\* facade holds no Zone for after the update.
NamesUnknownMaster(j) ==
  /\ call.recs[j].hasMode /\ ~call.recs[j].hasModes
  /\ call.recs[j].hasMaster
  /\ call.recs[j].master_zoneID # call.recs[j].zoneID
  /\ get_system_zone_id(call.recs[j].systemID, call.recs[j].master_zoneID)
       \notin DOMAIN api.zones

\* C17: an update() whose reply has the record of a slave that names a
\* master zone for which no Zone exists does not raise, and the mode list
\* of the slave is that of its System, else its own mode, with STOP.
C17_UnknownMasterFallsBack ==
  call.op = "update" =>
    \A j \in 1..Len(call.recs) :
      NamesUnknownMaster(j) =>
        /\ api.exc = OK
        /\ ZoneGetModes(ZoneOf(j)) =
             WithStop(IF Len(SystemGetModes(api.systems[call.recs[j].systemID])) > 0
                      THEN SystemGetModes(api.systems[call.recs[j].systemID])
                      ELSE <<ZoneOf(j).mode>>)

\* C38: in every state and for every System, no zone is in both its
\* masters map and its slaves map, the two maps together hold exactly the
\* zones of its zone map, and a zone is in the masters map exactly when its
\* get_master() is true.
C38_MastersAndSlavesFollowRoles ==
  \A i \in DOMAIN api.systems :
    LET s == api.systems[i]
    IN  /\ s.masters \cap s.slaves = {}
        /\ s.masters \cup s.slaves = s.zones
        /\ \A id \in s.zones :
             id \in s.masters <=> api.zones[get_system_zone_id(i, id)].master

\* C20 as stated: for every Zone, get_modes() returns a list whose last
\* element is STOP and that holds STOP exactly once.
C20_ModesEndWithOneStop ==
  \A k \in DOMAIN api.zones :
    LET modes == ZoneGetModes(api.zones[k])
    IN  /\ modes[Len(modes)] = STOP
        /\ Cardinality({i \in 1..Len(modes) : modes[i] = STOP}) = 1

\* The lists get_modes() works on: a non-empty modes list as the device
\* reports it, or the single mode of a zone.
ReportedLists ==
  {DecodeModes(L) : L \in ModeLists \ {<<>>}}
  \cup {<<m>> : m \in {COOLING, HEATING, AUTO}}

\* C20 amended: for every Zone, get_modes() holds STOP, and it is a list
\* the device reported, or the single mode of a zone, followed by STOP when
\* and only when that list does not hold STOP: STOP is then last and
\* occurs once, and a reported list that holds STOP is returned as it was
\* reported.
C20_ModesHoldStop ==
  \A k \in DOMAIN api.zones :
    LET modes == ZoneGetModes(api.zones[k])
    IN  /\ STOP \in Range(modes)
        /\ \E L \in ReportedLists : modes = WithStop(L)

\* C20 witness: after an update() a slave holds the list of its master,
\* which the device reported without STOP, and another zone holds a list
\* the device reported with STOP first.
C20_Witness ==
  /\ Returned("update")
  /\ \E k \in DOMAIN api.zones :
       /\ ~api.zones[k].master
       /\ ZoneGetModes(api.zones[k]) = <<COOLING, HEATING, AUTO, STOP>>
  /\ \E k \in DOMAIN api.zones :
       ZoneGetModes(api.zones[k])[1] = STOP

(***************************************************************************)
(* Specification SpecZone: updates of a facade whose controller reports    *)
(* zone 1:1 with a mode and a temperature unit inside or outside their     *)
(* enumerations, maxima 0..MaxTempMax and set temperatures 1..MaxTempSet;  *)
(* the cool and heat maxima and the three set temperatures are optional.   *)
(***************************************************************************)
MaxTempMax ==
  1

MaxTempSet ==
  2

\* <<mode, units>> of a record: both in range, mode out of range, units
\* out of range.
ZoneEnums ==
  {<<HEATING, 0>>, <<9, 0>>, <<HEATING, 2>>}

\* <<present, value>> of an optional key.
Optional(Values) ==
  {<<FALSE, 0>>} \cup {<<TRUE, v>> : v \in Values}

ZoneRecords ==
  {[ZoneRecord(1, 1, TRUE, e[1], FALSE, <<>>, FALSE, 0, 1) EXCEPT
      !.units = e[2], !.maxTemp = max,
      !.hasSetpoint = set[1], !.setpoint = set[2],
      !.hasCoolMax = cmax[1], !.coolmaxtemp = cmax[2],
      !.hasCoolSet = cset[1], !.coolsetpoint = cset[2],
      !.hasHeatMax = hmax[1], !.heatmaxtemp = hmax[2],
      !.hasHeatSet = hset[1], !.heatsetpoint = hset[2]] :
     e \in ZoneEnums, max \in 0..MaxTempMax,
     set \in Optional(1..MaxTempSet),
     cmax \in Optional(0..MaxTempMax), cset \in Optional(1..MaxTempSet),
     hmax \in Optional({MaxTempMax}), hset \in Optional({MaxTempSet})}

ZoneHvac(system_id) ==
  {HvacNone} \cup {HvacBody(system_id, <<r>>, FALSE) : r \in ZoneRecords}

InitZone ==
  DoInit({DEFAULT_SYSTEM_ID})

UpdateZone ==
  DoUpdate(ZoneHvac(api.system_id), ModeProbes) /\ UNCHANGED polls

NextZone ==
  \/ UpdateZone
  \/ Return

SpecZone ==
  InitZone /\ [][NextZone]_vars

(***************************************************************************)
(* Properties of SpecZone.                                                 *)
(***************************************************************************)
\* A stored set temperature is within a stored maximum that is not 0.
WithinMaximum(temp_set, temp_max) ==
  (temp_set # None /\ temp_max # None /\ temp_max # 0) => temp_set <= temp_max

\* C37: in every state and for every zone, the stored set temperature of
\* the base, the cooling and the heating discipline does not exceed the
\* stored maximum of that discipline when that maximum is not 0.
C37_StoredSetWithinStoredMaximum ==
  \A k \in DOMAIN api.zones :
    LET z == api.zones[k]
    IN  /\ WithinMaximum(z.temp_set, z.temp_max)
        /\ WithinMaximum(z.cool_temp_set, z.cool_temp_max)
        /\ WithinMaximum(z.heat_temp_set, z.heat_temp_max)

\* C18: an update() whose reply has a zone record with a mode or a
\* temperature unit outside its enumeration raises nothing and merges the
\* record: the zone is known and available, and its mode is the reported
\* mode, UNKNOWN for a mode outside the enumeration.
C18_OutOfRangeDecodes ==
  call.op = "update" =>
    \A j \in 1..Len(call.recs) :
      LET k == get_system_zone_id(call.recs[j].systemID, call.recs[j].zoneID)
      IN  /\ api.exc = OK
          /\ k \in DOMAIN api.zones
          /\ api.zones[k].available
          /\ api.zones[k].mode =
               (IF call.recs[j].mode \in 1..7 THEN call.recs[j].mode
                ELSE UNKNOWN)

\* The set temperature of a payload is kept: the payload has it, and the
\* maximum of its discipline is absent (None), zero or not below it.
Accepted(has, value, max_val) ==
  has /\ (max_val = None \/ max_val = 0 \/ value <= max_val)

\* C19: after an update() that merges a record of a zone, each of the
\* three set temperatures of the zone is the one of the record when the
\* record has it and it does not exceed the non-zero maximum of its
\* discipline, and the value the zone had before otherwise (None for a new
\* zone); the maximum of a discipline is the one of the record, or the one
\* the zone had when the record has none.
C19_SetTemperatureWithinMaximum ==
  [][(call'.op = "update" /\ api'.exc = OK /\ Len(call'.recs) = 1) =>
       LET zd == call'.recs[1]
           k == get_system_zone_id(zd.systemID, zd.zoneID)
           new == api'.zones[k]
           old == IF k \in DOMAIN api.zones THEN api.zones[k]
                  ELSE [temp_set |-> None, cool_temp_max |-> None,
                        cool_temp_set |-> None, heat_temp_max |-> None,
                        heat_temp_set |-> None]
       IN  /\ new.temp_max = zd.maxTemp
           /\ new.cool_temp_max =
                (IF zd.hasCoolMax THEN zd.coolmaxtemp ELSE old.cool_temp_max)
           /\ new.heat_temp_max =
                (IF zd.hasHeatMax THEN zd.heatmaxtemp ELSE old.heat_temp_max)
           /\ new.temp_set =
                (IF Accepted(zd.hasSetpoint, zd.setpoint, new.temp_max)
                 THEN zd.setpoint ELSE old.temp_set)
           /\ new.cool_temp_set =
                (IF Accepted(zd.hasCoolSet, zd.coolsetpoint, new.cool_temp_max)
                 THEN zd.coolsetpoint ELSE old.cool_temp_set)
           /\ new.heat_temp_set =
                (IF Accepted(zd.hasHeatSet, zd.heatsetpoint, new.heat_temp_max)
                 THEN zd.heatsetpoint ELSE old.heat_temp_set)]_vars

\* C19 witness: an update() has returned normally for a record whose cool
\* set temperature exceeds its non-zero cool maximum, and the zone still
\* holds the cool set temperature of an earlier record.
C19_Witness ==
  /\ Returned("update")
  /\ Len(call.recs) = 1
  /\ call.recs[1].hasCoolSet /\ call.recs[1].hasCoolMax
  /\ call.recs[1].coolmaxtemp > 0
  /\ call.recs[1].coolsetpoint > call.recs[1].coolmaxtemp
  /\ \E k \in DOMAIN api.zones :
       api.zones[k].cool_temp_set \notin {None, call.recs[1].coolsetpoint}

(***************************************************************************)
(* Specification SpecHttp: the requests of check_features and update one   *)
(* by one.  Every request is made by a coroutine that enters               *)
(* "async with self._api_semaphore", sends the request, reads the whole    *)
(* response and leaves the semaphore.  check_features makes the version    *)
(* request itself and then gathers three probe tasks; update makes the     *)
(* HVAC request itself and then gathers check_features or one refresh task *)
(* per feature flag.  A gather ends at the first task that raises and does *)
(* not cancel the others, which go on while the next call runs.  At most   *)
(* MaxRequests requests are made.                                          *)
(***************************************************************************)
MaxRequests ==
  13

\* A gate that lets every coroutine in.
CanAcquireAlways(h) ==
  TRUE

\* Semaphore.acquire: a permit is left.
CanAcquire(h) ==
  h.sem > 0

NewTask(id, endpoint, kind) ==
  [id |-> id, endpoint |-> endpoint, kind |-> kind, pc |-> "wait"]

\* The call creates the coroutines eps, a list of <<endpoint, kind>>, and
\* awaits them.
Spawn(h, eps, main) ==
  [h EXCEPT !.tasks = @ \cup {NewTask(h.next + i - 1, eps[i][1], eps[i][2]) :
                                i \in 1..Len(eps)},
            !.cur = {h.next + i - 1 : i \in 1..Len(eps)},
            !.next = @ + Len(eps),
            !.main = main]

\* The call takes the outcome of the awaited tasks that have one; the
\* others are awaited no longer.
Settle(h) ==
  [h EXCEPT !.tasks = {t \in @ : ~(t.id \in h.cur /\ t.pc \in {"done", "failed"})},
            !.cur = {}]

CurTasks(h) ==
  {t \in h.tasks : t.id \in h.cur}

\* check_features: the three probe tasks.
ProbeTasks ==
  <<<<"webserver", "probe">>, <<"systems", "probe">>, <<"dhw", "probe">>>>

\* update_features: one refresh task per feature flag.
RefreshTasks(features) ==
  LET sel(f) == IF f \in features THEN <<<<f, "refresh">>>> ELSE <<>>
  IN  sel("dhw") \o sel("systems") \o sel("webserver")

\* A check_features that creates the probe tasks together with the version
\* request.
HttpCheckFeaturesAtOnce ==
  /\ http.main = "idle"
  /\ http.next + 3 <= MaxRequests
  /\ http' = [Spawn(http, <<<<"version", "probe">>>> \o ProbeTasks,
                    "check_version") EXCEPT !.cur = {http.next}]
  /\ UNCHANGED <<api, call, polls>>

\* check_features is called: it makes the version request.
HttpCheckFeatures ==
  /\ http.main = "idle"
  /\ http.next + 3 <= MaxRequests
  /\ http' = Spawn(http, <<<<"version", "probe">>>>, "check_version")
  /\ UNCHANGED <<api, call, polls>>

\* update is called: it makes the HVAC request.
HttpUpdate ==
  /\ http.main = "idle"
  /\ http.next + 4 <= MaxRequests
  /\ http' = Spawn(http, <<<<"hvac", "hvac">>>>, "update_hvac")
  /\ UNCHANGED <<api, call, polls>>

\* A coroutine enters the semaphore and sends its request.
HttpAcquire ==
  /\ \E t \in http.tasks :
       /\ t.pc = "wait"
       /\ CanAcquire(http)
       /\ http' = [http EXCEPT !.sem = @ - 1,
                               !.tasks = (@ \ {t}) \cup {[t EXCEPT !.pc = "sent"]}]
  /\ UNCHANGED <<api, call, polls>>

\* The response of a request in flight has been read, or the request has
\* failed: the coroutine leaves the semaphore; a probe whose response is
\* valid sets its feature flag.  The outcome of a task nobody awaits is
\* dropped.
HttpRespond ==
  /\ \E t \in http.tasks, outcome \in {"done", "failed"}, valid \in BOOLEAN :
       /\ t.pc = "sent"
       /\ valid => /\ t.kind = "probe" /\ t.endpoint # "version"
                   /\ outcome = "done"
       /\ http' = [http EXCEPT
                     !.sem = @ + 1,
                     !.tasks = IF t.id \in http.cur
                               THEN (@ \ {t}) \cup {[t EXCEPT !.pc = outcome]}
                               ELSE @ \ {t},
                     !.features = IF valid THEN @ \cup {t.endpoint} ELSE @]
  /\ UNCHANGED <<api, call, polls>>

\* The call goes on after the request it made itself: check_features
\* creates the probe tasks after the version request; update goes to
\* update_features after the HVAC request, which calls check_features when
\* the features have not been checked and creates the refresh tasks
\* otherwise.  A request that failed ends the call.
HttpResumeRequest ==
  /\ http.main \in {"check_version", "update_version", "update_hvac"}
  /\ \E t \in CurTasks(http) :
       \/ /\ t.pc = "failed"
          /\ http' = [Settle(http) EXCEPT !.main = "idle"]
       \/ /\ t.pc = "done"
          /\ http' =
               IF http.main = "check_version"
               THEN Spawn(Settle(http), ProbeTasks, "check_gather")
               ELSE IF http.main = "update_version"
               THEN Spawn(Settle(http), ProbeTasks, "update_gather")
               ELSE IF ~http.checked
               THEN Spawn(Settle(http), <<<<"version", "probe">>>>,
                          "update_version")
               ELSE IF RefreshTasks(http.features) = <<>>
               THEN [Settle(http) EXCEPT !.main = "idle"]
               ELSE Spawn(Settle(http), RefreshTasks(http.features),
                          "refresh_gather")
  /\ UNCHANGED <<api, call, polls>>

\* asyncio.gather returns when every task is done and raises as soon as
\* one has failed; the call ends either way.
HttpResumeGather ==
  /\ http.main \in {"check_gather", "update_gather", "refresh_gather"}
  /\ \/ /\ \E t \in CurTasks(http) : t.pc = "failed"
        /\ http' = [Settle(http) EXCEPT !.main = "idle"]
     \/ /\ \A t \in CurTasks(http) : t.pc = "done"
        /\ http' = [Settle(http) EXCEPT
                      !.main = "idle",
                      !.checked = @ \/ http.main # "refresh_gather"]
  /\ UNCHANGED <<api, call, polls>>

InitHttp ==
  DoInit({DEFAULT_SYSTEM_ID})

NextHttp ==
  \/ HttpCheckFeatures
  \/ HttpUpdate
  \/ HttpAcquire
  \/ HttpRespond
  \/ HttpResumeRequest
  \/ HttpResumeGather

SpecHttp ==
  InitHttp /\ [][NextHttp]_vars

(***************************************************************************)
(* Properties of SpecHttp.                                                 *)
(***************************************************************************)
InFlight ==
  {t \in http.tasks : t.pc = "sent"}

\* C14: at most HTTP_MAX_REQUESTS requests of the facade are in flight,
\* whatever the order in which the probe tasks, the refresh tasks and the
\* tasks a failed gather left behind reach the semaphore.
C14_RequestsInFlight ==
  Cardinality(InFlight) <= HTTP_MAX_REQUESTS

\* C14 witness: a request is in flight while a task of the running call
\* and a task left behind by an earlier call both wait for the semaphore.
C14_Witness ==
  /\ InFlight # {}
  /\ http.main # "idle"
  /\ \E t \in http.tasks : t.pc = "wait" /\ t.id \in http.cur
  /\ \E t \in http.tasks : t.pc = "wait" /\ t.id \notin http.cur

\* C28: while the version request of a check_features is waiting or in
\* flight, no web-server, systems-aggregate or hot-water probe of that
\* check_features exists: the tasks created after the version request are
\* created once its response has been read.
C28_ProbesAfterVersion ==
  \A v \in http.tasks :
    (v.endpoint = "version" /\ v.pc \in {"wait", "sent"}) =>
      ~\E t \in http.tasks :
         /\ t.kind = "probe" /\ t.endpoint # "version"
         /\ t.id > v.id

\* C28 witness: in the gather of a check_features the hot-water probe,
\* created last, is in flight while the web-server probe, created first,
\* still waits.
C28_Witness ==
  /\ http.main \in {"check_gather", "update_gather"}
  /\ \E t \in CurTasks(http) : t.endpoint = "dhw" /\ t.pc = "sent"
  /\ \E t \in CurTasks(http) : t.endpoint = "webserver" /\ t.pc = "wait"

(***************************************************************************)
(* Specification SpecMac: validate and update against a web server that    *)
(* answers with one of two MAC addresses, without one, with "method not    *)
(* provided" or without a body.                                            *)
(***************************************************************************)
MacRecords ==
  {ZoneRecord(1, 1, TRUE, HEATING, FALSE, <<>>, FALSE, 0, 1)}

MacHvac(system_id) ==
  {HvacNone} \cup {HvacBody(system_id, recs, FALSE) : recs \in SeqsUpTo(MacRecords, 1)}

MacProbes ==
  [version : {"new", "InvalidMethod"},
   web : {"none", "nomac", "mac", "mac2", "InvalidMethod"},
   dhw : {"invalid", "valid"},
   sys : {[SysNone EXCEPT !.kind = "nokey"], SysRaise("InvalidHost")},
   bg : {0}]

InitMac ==
  DoInit({DEFAULT_SYSTEM_ID})

ValidateMac ==
  DoValidate(MacHvac(api.system_id), MacProbes) /\ UNCHANGED polls

UpdateMac ==
  DoUpdate(MacHvac(api.system_id), MacProbes) /\ UNCHANGED polls

NextMac ==
  \/ ValidateMac
  \/ UpdateMac
  \/ Return

SpecMac ==
  InitMac /\ [][NextMac]_vars

(***************************************************************************)
(* Properties of SpecMac.                                                  *)
(***************************************************************************)
\* C21: a validate() that returns normally returns the MAC address of the
\* web-server reply of that call when the reply has a valid MAC address, and
\* None otherwise.
C21_ValidateReturnsProbedMac ==
  Returned("validate") =>
    call.ret = IF call.p.web \in {"mac", "mac2"} THEN WebMac(call.p.web)
               ELSE None

\* C21 witness: a validate() has returned the second MAC address after an
\* update() had returned normally.
C21_Witness ==
  /\ Returned("validate")
  /\ call.ever
  /\ call.p.web = "mac2"
  /\ call.ret = 2

\* C32: once the facade has a WebServer it has one after every later call,
\* and once it has a HotWater it has one after every later call.
C32_SingletonsStayPresent ==
  [][/\ api.webserver => api'.webserver
     /\ api.hotwater => api'.hotwater]_vars

\* The HotWater half of C32 on its own.
HotWaterStaysPresent ==
  [][api.hotwater => api'.hotwater]_vars


(***************************************************************************)
(* Specification SpecErr: polls of a controller whose zone records and     *)
(* systems-aggregate records carry error lists.  A record has no "errors"  *)
(* key or one of ErrorLists; at most MaxErrRecords records in a reply.     *)
(***************************************************************************)
MaxErrZoneId ==
  2

MaxErrRecords ==
  2

ErrorLists ==
  {<<>>,
   <<<<"system", "Error 9">>>>,
   <<<<"Zone", "Low battery">>>>,
   <<<<"Zone", "Low battery">>, <<"system", "Error 9">>>>}

ErrRecords ==
  {[ZoneRecord(1, z, TRUE, HEATING, FALSE, <<>>, FALSE, 0, 1) EXCEPT
      !.radio = TRUE, !.hasErrors = e[1], !.errors = e[2]] :
     z \in 1..MaxErrZoneId,
     e \in {<<FALSE, <<>>>>} \cup {<<TRUE, l>> : l \in ErrorLists}}

ErrHvac(system_id) ==
  {HvacNone}
  \cup {HvacBody(system_id, recs, FALSE) : recs \in SeqsUpTo(ErrRecords, MaxErrRecords)}

ErrProbes ==
  [version : {"new"}, web : {"nomac"}, dhw : {"invalid"},
   sys : {[SysNone EXCEPT !.kind = "nokey"],
          [SysNone EXCEPT !.kind = "list", !.ids = <<1>>, !.hasErrors = TRUE,
                          !.errors = <<<<"system", "Error 9">>>>]},
   bg : {0}]

InitErr ==
  DoInit({DEFAULT_SYSTEM_ID})

UpdateErr ==
  DoUpdate(ErrHvac(api.system_id), ErrProbes) /\ UNCHANGED polls

NextErr ==
  \/ UpdateErr
  \/ Return

SpecErr ==
  InitErr /\ [][NextErr]_vars

(***************************************************************************)
(* Properties of SpecErr.                                                  *)
(***************************************************************************)
NoDuplicates(seq) ==
  \A i, j \in 1..Len(seq) : seq[i] = seq[j] => i = j

\* C22: System.get_errors() never holds the same error string twice,
\* whatever zone records and systems-aggregate records have been merged.
C22_SystemErrorsListedOnce ==
  \A i \in DOMAIN api.systems : NoDuplicates(SystemGetErrors(api.systems[i]))

\* The last record of a reply for the zone key k.
LastRecord(recs, k) ==
  recs[CHOOSE i \in 1..Len(recs) :
         /\ get_system_zone_id(recs[i].systemID, recs[i].zoneID) = k
         /\ \A j \in (i + 1)..Len(recs) :
              get_system_zone_id(recs[j].systemID, recs[j].zoneID) # k]

\* The zone-scoped error strings of a zone record.
ZoneScoped(zd) ==
  IF zd.hasErrors
  THEN {zd.errors[i][2] : i \in {j \in 1..Len(zd.errors) :
                                   Casefold(zd.errors[j][1]) = ERROR_ZONE}}
  ELSE {}

\* C29: after an update() that returns normally, the errors of a zone the
\* reply reported are the zone-scoped errors of its record in that reply,
\* and get_problems() and get_battery_low() say the same.
C29_ZoneErrorsOfLatestRecord ==
  Returned("update") =>
    \A k \in call.seen_zones :
      LET z == api.zones[k]
          now == ZoneScoped(LastRecord(call.recs, k))
      IN  /\ Range(ZoneGetErrors(z)) = now
          /\ ZoneGetProblems(z) <=> now # {}
          /\ ZoneGetBatteryLow(z) = "True" <=> API_ERROR_LOW_BATTERY \in now


(***************************************************************************)
(* Specification SpecDhw: polls that find the hot-water tank, and          *)
(* set_dhw_parameters with one or two hot-water parameters of values       *)
(* 0..MaxDhwValue, answered with an echo of any of these parameters.       *)
(***************************************************************************)
MaxDhwValue ==
  1

DhwPairs ==
  {<<k, v>> : k \in {"acs_power", "acs_setpoint"}, v \in 0..MaxDhwValue}

DhwParams ==
  {<<<<"systemID", 0>>>> \o ps : ps \in
     {qs \in SeqsUpTo(DhwPairs, 2) :
        Len(qs) > 0 /\ \A i, j \in 1..Len(qs) : qs[i][1] = qs[j][1] => i = j}}

DhwEchoes ==
  {Obj(<<<<"systemID", 0>>>> \o ps) : ps \in
     {qs \in SeqsUpTo(DhwPairs, 2) :
        \A i, j \in 1..Len(qs) : qs[i][1] = qs[j][1] => i = j}}

DhwReplies ==
  {PutNone, PutErrors(200, <<"acs not connected">>)}
  \cup {PutEcho(f) : f \in DhwEchoes}

DhwProbes ==
  [version : {"new"}, web : {"nomac"}, dhw : {"invalid", "valid"},
   sys : {[SysNone EXCEPT !.kind = "nokey"]}, bg : {0}]

InitDhw ==
  DoInit({DEFAULT_SYSTEM_ID})

UpdateDhw_ ==
  DoUpdate({HvacBody(api.system_id, <<>>, FALSE)}, DhwProbes)
  /\ UNCHANGED polls

SetDhw_ ==
  DoSetDhwParameters(DhwParams, DhwReplies) /\ UNCHANGED polls

NextDhw ==
  \/ UpdateDhw_
  \/ SetDhw_
  \/ Return

SpecDhw ==
  InitDhw /\ [][NextDhw]_vars

(***************************************************************************)
(* Properties of SpecDhw.                                                  *)
(***************************************************************************)
\* A requested hot-water parameter is absent from the echo of the call, or
\* echoed with another value.
DhwUnconfirmed(c) ==
  \E i \in 1..Len(c.params) :
    /\ c.params[i][1] \in API_DHW_PARAMS
    /\ \/ ~c.hasEcho
       \/ c.params[i][1] \notin DOMAIN c.echo
       \/ c.echo[c.params[i][1]] # c.params[i][2]

\* C24: a set_dhw_parameters whose echo lacks a requested hot-water
\* parameter, or has it with another value, raises and leaves the HotWater
\* as it was.
C24_DhwEchoValidated ==
  [][(call'.op = "set_dhw_parameters" /\ api.hotwater
        /\ DhwUnconfirmed(call')) =>
       /\ api'.exc # OK
       /\ api'.dhw = api.dhw]_vars


(***************************************************************************)
(* Specification SpecMaster: polls of one system whose zones 1..           *)
(* MaxMasterZoneId are reported as master (with a mode list) or as slave   *)
(* (without), a master in cooling or heating mode and a slave in heating   *)
(* mode, with or without an eco-adapt value; at most MaxMasterRecords      *)
(* records in a reply.                                                     *)
(***************************************************************************)
MaxMasterZoneId ==
  2

MaxMasterRecords ==
  2

MasterRecords ==
  {[ZoneRecord(1, z, TRUE, m, TRUE, <<COOLING, HEATING>>, FALSE, 0, 1)
      EXCEPT !.hasEco = eco[1], !.eco_adapt = eco[2]] :
     z \in 1..MaxMasterZoneId, m \in {COOLING, HEATING},
     eco \in {<<FALSE, "">>, <<TRUE, "manual">>}}
  \cup {[ZoneRecord(1, z, TRUE, HEATING, FALSE, <<>>, FALSE, 0, 1)
      EXCEPT !.hasEco = eco[1], !.eco_adapt = eco[2]] :
     z \in 1..MaxMasterZoneId, eco \in {<<FALSE, "">>, <<TRUE, "a">>}}

MasterHvac(system_id) ==
  {HvacBody(system_id, recs, FALSE) :
     recs \in SeqsUpTo(MasterRecords, MaxMasterRecords)}

InitMaster ==
  DoInit({DEFAULT_SYSTEM_ID})

UpdateMaster ==
  DoUpdate(MasterHvac(api.system_id), ModeProbes) /\ UNCHANGED polls

NextMaster ==
  \/ UpdateMaster
  \/ Return

SpecMaster ==
  InitMaster /\ [][NextMaster]_vars

(***************************************************************************)
(* Properties of SpecMaster.                                               *)
(***************************************************************************)
\* The positions of the master records in a reply.
MasterPositions(recs) ==
  {i \in 1..Len(recs) : recs[i].hasModes \/ ~recs[i].hasMode}

\* C26: in every reachable state, merging a master record makes the mode,
\* the mode list and (when the master has one) the eco-adapt of the System
\* those of the master, and merging a slave record changes no mode, mode
\* list or eco-adapt the System already has; after an update() whose reply
\* has a master record, the mode of the System is the mode of the master
\* reported last.
C26_MasterWinsSlaveFills ==
  /\ \A zd \in MasterRecords :
       LET st1 == ParseZoneData(Data(api), zd)
           z1 == st1.zones[get_system_zone_id(zd.systemID, zd.zoneID)]
           s1 == st1.systems[zd.systemID]
       IN  IF z1.master
           THEN /\ s1.mode = z1.mode
                /\ s1.modes = ZoneGetModes(z1)
                /\ z1.eco_adapt # NoEcoAdapt => s1.eco_adapt = z1.eco_adapt
           ELSE zd.systemID \in DOMAIN api.systems =>
                  LET s == api.systems[zd.systemID]
                  IN  /\ s.mode # NoMode => s1.mode = s.mode
                      /\ Len(s.modes) > 0 => s1.modes = s.modes
                      /\ s.eco_adapt # NoEcoAdapt => s1.eco_adapt = s.eco_adapt
  /\ (Returned("update") /\ MasterPositions(call.recs) # {}) =>
       LET last == CHOOSE i \in MasterPositions(call.recs) :
                     \A j \in MasterPositions(call.recs) : j <= i
       IN  api.systems[1].mode = OperationMode(call.recs[last].mode)

\* C26 witness: an update() has returned normally whose reply had a master
\* record followed by a slave record with another mode and another
\* eco-adapt, for a System that had a mode before.
C26_Witness ==
  /\ Returned("update")
  /\ ~call.first
  /\ Len(call.recs) = 2
  /\ call.recs[1].hasModes /\ ~call.recs[2].hasModes
  /\ call.recs[1].mode # call.recs[2].mode
  /\ call.recs[1].hasEco /\ call.recs[2].hasEco
  /\ call.recs[1].eco_adapt # call.recs[2].eco_adapt
  /\ api.systems[1].mode = call.recs[1].mode
  /\ api.systems[1].eco_adapt = call.recs[1].eco_adapt


(***************************************************************************)
(* Specification SpecData: polls and data() calls.  Zones 1..MaxDataZoneId *)
(* of one system are reported as slave or as master, with a mode list      *)
(* that holds STOP or does not; at most MaxDataRecords records in a reply. *)
(***************************************************************************)
MaxDataZoneId ==
  2

MaxDataRecords ==
  2

DataRecords ==
  UNION {{ZoneRecord(1, z, TRUE, HEATING, FALSE, <<>>, FALSE, 0, 1),
          ZoneRecord(1, z, TRUE, HEATING, TRUE, <<COOLING, HEATING>>, FALSE, 0, 1),
          ZoneRecord(1, z, TRUE, HEATING, TRUE, <<STOP, HEATING>>, FALSE, 0, 1)} :
           z \in 1..MaxDataZoneId}

DataHvac(system_id) ==
  {HvacBody(system_id, recs, FALSE) :
     recs \in SeqsUpTo(DataRecords, MaxDataRecords)}

InitData ==
  DoInit({DEFAULT_SYSTEM_ID})

UpdateData_ ==
  DoUpdate(DataHvac(api.system_id), ModeProbes) /\ UNCHANGED polls

NextData ==
  \/ UpdateData_
  \/ DoData
  \/ Return

SpecData ==
  InitData /\ [][NextData]_vars

(***************************************************************************)
(* Properties of SpecData.                                                 *)
(***************************************************************************)
\* C30: a call of data(), which calls Zone.data() and Zone.get_modes() for
\* every zone and System.data() for every system, changes no stored field
\* of the facade, of a System or of a Zone.
C30_DataIsPure ==
  [][call'.op = "data" => Data(api') = Data(api)]_vars


(***************************************************************************)
(* Specification SpecCheckDhw: the hot-water probe on every hot-water      *)
(* record whose keys are a subset of DHW_KEYS with values                  *)
(* 0..MaxCheckDhwValue, on a body without "data", on no body and on a      *)
(* request that raises.                                                    *)
(***************************************************************************)
MaxCheckDhwValue ==
  1

DHW_KEYS ==
  {"acs_maxtemp", "acs_mintemp", "acs_power", "acs_setpoint", "acs_temp",
   "systemID"}

CheckDhwRecords ==
  UNION {[ks -> 0..MaxCheckDhwValue] : ks \in SUBSET DHW_KEYS}

CheckDhwReplies ==
  {PutNone, PutRaise("HotWaterNotAvailable"), PutRaise("InvalidHost"),
   [PutNone EXCEPT !.kind = "body"]}
  \cup {PutEcho(d) : d \in CheckDhwRecords}

InitCheckDhw ==
  DoInit({DEFAULT_SYSTEM_ID})

CheckFeatureDhw_ ==
  DoCheckFeatureDhw(CheckDhwReplies, {FALSE, TRUE}) /\ UNCHANGED polls

NextCheckDhw ==
  \/ CheckFeatureDhw_
  \/ Return

SpecCheckDhw ==
  InitCheckDhw /\ [][NextCheckDhw]_vars

(***************************************************************************)
(* Properties of SpecCheckDhw.                                             *)
(***************************************************************************)
\* The value a hot-water record has for a numeric key: 0 when the key is
\* missing.
DhwNum(d, key) ==
  IF key \in DOMAIN d THEN d[key] ELSE 0

\* The records the hot-water probe is to accept.
DhwAccepted(d) ==
  /\ DhwNum(d, "acs_maxtemp") # 0
  /\ DhwNum(d, "acs_mintemp") # 0
  /\ "acs_power" \in DOMAIN d
  /\ DhwNum(d, "acs_setpoint") # 0
  /\ DhwNum(d, "acs_temp") # 0
  /\ DhwNum(d, "systemID") = 0

\* C33: check_dhw accepts the data of a hot-water reply exactly when
\* acs_maxtemp, acs_mintemp, acs_setpoint and acs_temp are non-zero, the key
\* acs_power is present and systemID is 0, a missing numeric key counting as
\* 0; and the hot-water probe adds the HOT_WATER flag to the flags it found
\* exactly when its reply has a body whose data check_dhw accepts.
C33_HotWaterProbeAcceptance ==
  call.op = "check_feature_dhw" =>
    LET d == IF call.hasEcho THEN call.data ELSE EmptyMap
    IN  /\ check_dhw(d) <=> DhwAccepted(d)
        /\ api.api_features =
             call.flags1 \cup (IF call.key = "body" /\ DhwAccepted(d)
                               THEN {"HOT_WATER"} ELSE {})

\* C33 witness: the probe has set the HOT_WATER flag on a record whose
\* acs_power is present and 0.
C33_Witness ==
  /\ call.op = "check_feature_dhw"
  /\ call.key = "body"
  /\ call.hasEcho
  /\ "acs_power" \in DOMAIN call.data
  /\ call.data["acs_power"] = 0
  /\ "HOT_WATER" \notin call.flags1
  /\ "HOT_WATER" \in api.api_features

\* The probe has left the facade without the HOT_WATER flag on a record that
\* lacks only the key acs_power.
C33_WitnessRejected ==
  /\ call.op = "check_feature_dhw"
  /\ call.key = "body"
  /\ call.hasEcho
  /\ DOMAIN call.data = DHW_KEYS \ {"acs_power"}
  /\ \A k \in DOMAIN call.data : call.data[k] = IF k = "systemID" THEN 0 ELSE 1
  /\ "HOT_WATER" \notin api.api_features


(***************************************************************************)
(* Specification SpecStage: polls of one zone whose record reports air and *)
(* floor demand and the stages of the cold and the heat discipline.        *)
(***************************************************************************)
StageRecords ==
  {[ZoneRecord(1, 1, TRUE, HEATING, FALSE, <<>>, FALSE, 0, 1) EXCEPT
      !.hasAirDemand = air[1], !.air_demand = air[2],
      !.hasFloorDemand = floor[1], !.floor_demand = floor[2],
      !.hasColdStage = cold[1], !.coldStage = cold[2],
      !.hasColdStages = colds[1], !.coldStages = colds[2],
      !.hasHeatStages = heats[1], !.heatStages = heats[2]] :
     air \in Optional({0, 1}), floor \in Optional({1}),
     cold \in Optional({2}), colds \in Optional({0, 1, 3}),
     heats \in Optional({0, 2})}

StageHvac(system_id) ==
  {HvacBody(system_id, <<r>>, FALSE) : r \in StageRecords}

InitStage ==
  DoInit({DEFAULT_SYSTEM_ID})

UpdateStage ==
  DoUpdate(StageHvac(api.system_id), ModeProbes) /\ UNCHANGED polls

NextStage ==
  \/ UpdateStage
  \/ Return

SpecStage ==
  InitStage /\ [][NextStage]_vars

(***************************************************************************)
(* Properties of SpecStage.                                                *)
(***************************************************************************)
\* The stage is in the cold-stage list or in the heat-stage list of the
\* zone, or both lists are empty.
StageListed(z, stage) ==
  \/ stage \in Range(z.cold_stages)
  \/ stage \in Range(z.heat_stages)
  \/ (z.cold_stages = <<>> /\ z.heat_stages = <<>>)

\* C34: for every zone, get_air_demand() returns the stored air-demand flag
\* when the flag has been reported and the Air stage is in the cold-stage or
\* the heat-stage list or both lists are empty, and None in every other
\* case; get_floor_demand() does the same with the floor-demand flag and the
\* Radiant stage; data() has the key of a demand exactly when its getter
\* returns a flag.
C34_DemandOnlyForSupportedStage ==
  \A k \in DOMAIN api.zones :
    LET z == api.zones[k]
    IN  /\ ZoneGetAirDemand(z) =
             IF z.air_demand # "None" /\ StageListed(z, "Air")
             THEN z.air_demand ELSE "None"
        /\ ZoneGetFloorDemand(z) =
             IF z.floor_demand # "None" /\ StageListed(z, "Radiant")
             THEN z.floor_demand ELSE "None"
        /\ "air-demand" \in DOMAIN ZoneDataDemand(z)
             <=> (z.air_demand # "None" /\ StageListed(z, "Air"))
        /\ "floor-demand" \in DOMAIN ZoneDataDemand(z)
             <=> (z.floor_demand # "None" /\ StageListed(z, "Radiant"))

\* C34 witness: after an update() a zone has a reported air demand, a
\* cold-stage list without the Air stage and an empty heat-stage list, and
\* get_air_demand() returns None while get_floor_demand() returns the flag.
C34_Witness ==
  /\ Returned("update")
  /\ \E k \in DOMAIN api.zones :
       LET z == api.zones[k]
       IN  /\ z.air_demand = "True"
           /\ z.cold_stages = <<"Radiant">>
           /\ z.heat_stages = <<>>
           /\ ZoneGetAirDemand(z) = "None"
           /\ ZoneGetFloorDemand(z) = "True"


(***************************************************************************)
(* Specification SpecIds: polls of a controller whose zone records have    *)
(* system ids -1..MaxIdsSystemId and zone ids -1..MaxIdsZoneId, at most    *)
(* MaxIdsRecords records in a reply.                                       *)
(***************************************************************************)
MaxIdsSystemId ==
  2

MaxIdsZoneId ==
  1

MaxIdsRecords ==
  2

IdsRecords ==
  {ZoneRecord(s, z, TRUE, HEATING, FALSE, <<>>, FALSE, 0, 1) :
     s \in -1..MaxIdsSystemId, z \in -1..MaxIdsZoneId}

IdsHvac(system_id) ==
  HvacReplies(system_id, SeqsUpTo(IdsRecords, MaxIdsRecords), {FALSE})

InitIds ==
  DoInit({DEFAULT_SYSTEM_ID})

UpdateIds ==
  DoUpdate(IdsHvac(api.system_id), ModeProbes) /\ UNCHANGED polls

NextIds ==
  \/ UpdateIds
  \/ Return

SpecIds ==
  InitIds /\ [][NextIds]_vars

(***************************************************************************)
(* Properties of SpecIds.                                                  *)
(***************************************************************************)
\* The keys of the maps of the facade a agree with the entities they hold.
KeysConsistent(a) ==
  /\ \A i \in DOMAIN a.systems : i > 0 /\ a.systems[i].id = i
  /\ \A k \in DOMAIN a.zones :
       LET z == a.zones[k]
       IN  /\ k = get_system_zone_id(z.system_id, z.id)
           /\ z.system_id > 0
           /\ z.id > 0
           /\ z.system_id \in DOMAIN a.systems
           /\ z.id \in a.systems[z.system_id].zones

\* C35: after every step the key of every Zone in the zones map is the
\* combined key of its system id and its zone id, both greater than 0, every
\* key of the systems map is greater than 0, the System of every Zone is in
\* the systems map and holds the Zone under its zone id; and an update()
\* adds a System only for a record with systemID > 0 and a Zone only for a
\* record with systemID > 0 and zoneID > 0.
C35_MapKeysConsistent ==
  [][/\ KeysConsistent(api')
     /\ DOMAIN api'.systems \subseteq
          DOMAIN api.systems
          \cup {r.systemID : r \in {q \in Range(call'.recs) : q.systemID > 0}}
     /\ DOMAIN api'.zones \subseteq
          DOMAIN api.zones
          \cup {get_system_zone_id(r.systemID, r.zoneID) :
                  r \in {q \in Range(call'.recs) :
                           q.systemID > 0 /\ q.zoneID > 0}}]_vars

\* C35 witness: an update() has read a record with system id 2 and zone id
\* 0 and a record with system id -1 and zone id 1; System 2 is in the model
\* without a Zone, beside a Zone of System 1 from an earlier poll.
C35_Witness ==
  /\ Returned("update")
  /\ \E i, j \in 1..Len(call.recs) :
       /\ call.recs[i].systemID = 2 /\ call.recs[i].zoneID = 0
       /\ call.recs[j].systemID = -1 /\ call.recs[j].zoneID = 1
  /\ DOMAIN api.systems = {1, 2}
  /\ DOMAIN api.zones = {get_system_zone_id(1, 1)}


(***************************************************************************)
(* Specification SpecQuirks: validate, update and commands on a facade     *)
(* constructed with or without the option http_quirks, against a device    *)
(* whose version reply changes from call to call: a firmware below         *)
(* HTTP_QUIRK_VERSION ("old"), one at or above it ("new"), a body without  *)
(* version, no body, an unsupported request or a refused connection.       *)
(***************************************************************************)
QuirkProbes ==
  [version : {"none", "noversion", "old", "new", "InvalidMethod",
              TransportFailure("connect")},
   web : {"nomac", "mac"}, dhw : {"invalid"},
   sys : {[SysNone EXCEPT !.kind = "nokey"]}, bg : {0}]

QuirkHvac(system_id) ==
  {HvacNone,
   HvacBody(system_id, <<>>, FALSE),
   HvacBody(system_id,
            <<ZoneRecord(1, 1, TRUE, HEATING, FALSE, <<>>, FALSE, 0, 1)>>,
            FALSE)}

InitQuirks ==
  /\ api \in {[NewApi(DEFAULT_SYSTEM_ID) EXCEPT !.http_quirks = q] :
                q \in BOOLEAN}
  /\ call = NoCall
  /\ polls = 0
  /\ http = NoHttp

ValidateQuirks ==
  DoValidate(QuirkHvac(api.system_id), QuirkProbes) /\ UNCHANGED polls

UpdateQuirks ==
  DoUpdate(QuirkHvac(api.system_id), QuirkProbes) /\ UNCHANGED polls

SetHvacQuirks ==
  DoSetHvacParameters(LifeParams, LifeReplies) /\ UNCHANGED polls

NextQuirks ==
  \/ ValidateQuirks
  \/ UpdateQuirks
  \/ SetHvacQuirks
  \/ Return

SpecQuirks ==
  InitQuirks /\ [][NextQuirks]_vars

(***************************************************************************)
(* Properties of SpecQuirks.  They are about a step of a call: api is the  *)
(* facade before the call, api' the facade after it and api'.wire the      *)
(* requests the call has sent.                                             *)
(***************************************************************************)
\* The call has sent the request to the endpoint after it has processed
\* the reply to its version request: in check_features the version request
\* comes first, and update sends its HVAC request before it checks features.
AfterVersionReply(endpoint) ==
  /\ "version" \in api'.sent
  /\ endpoint # "version"
  /\ ~(call'.op = "update" /\ endpoint = "hvac")

\* C40 as stated: a request is sent in quirks mode exactly when the option
\* http_quirks is set or the firmware is not known to be at least
\* HTTP_QUIRK_VERSION, where a version probe that fails or returns no
\* version leaves the firmware unknown; http_quirks_needed changes only in
\* a call that probes the version.
C40_QuirksUnlessProbeFoundNew ==
  [][/\ \A w \in api'.wire :
          w[2] = (api.http_quirks
                  \/ IF AfterVersionReply(w[1]) THEN call'.p.version # "new"
                     ELSE api.http_quirks_needed)
     /\ "version" \notin api'.sent =>
          api'.http_quirks_needed = api.http_quirks_needed]_vars

\* What http_quirks_needed is after a version probe with the given answer.
QuirksNeededAfter(version) ==
  CASE version = "new" -> FALSE
    [] version = "old" -> TRUE
    [] OTHER           -> api.http_quirks_needed

\* C40 amended: a request is sent in quirks mode exactly when the option
\* http_quirks is set or http_quirks_needed is set when it is sent;
\* http_quirks_needed is set until a version probe returns a version, is
\* then set exactly when the last version returned is below
\* HTTP_QUIRK_VERSION, and is left as it was by a version probe that fails
\* or returns no version and by every call without a version probe.
C40_QuirksUnlessLastVersionNew ==
  [][/\ \A w \in api'.wire :
          w[2] = (api.http_quirks
                  \/ IF AfterVersionReply(w[1])
                     THEN QuirksNeededAfter(call'.p.version)
                     ELSE api.http_quirks_needed)
     /\ api'.http_quirks_needed =
          IF "version" \in api'.sent THEN QuirksNeededAfter(call'.p.version)
          ELSE api.http_quirks_needed
     /\ ~api'.version => api'.http_quirks_needed
     /\ api'.http_quirks = api.http_quirks]_vars

\* C40 witness: a validate() whose version reply had no version has sent
\* its HVAC request by aiohttp_request, the firmware of an earlier probe
\* being at least HTTP_QUIRK_VERSION.
C40_Witness ==
  /\ call.op = "validate"
  /\ call.p.version = "noversion"
  /\ <<"hvac", FALSE>> \in api.wire

====
